---- MODULE Spec2Model ----
(***************************************************************************)
(* Enrichment worker of mfittko/raged.                                     *)
(*                                                                         *)
(* Two parts of the worker are modelled:                                   *)
(*   - the Postgres task queue of worker/src/db.py (dequeue_task,          *)
(*     complete_task, fail_task, recover_stale_leases), specification Spec; *)
(*   - the Redis consumer of worker/src/main.py together with the pipeline *)
(*     of worker/src/pipeline.py, specification SpecWorker.                *)
(***************************************************************************)
EXTENDS Integers, Sequences, FiniteSets, TLC

---------------------------------------------------------------------------
(* Bounds of the model *)

NumTasks == 2
NumWorkers == 2
MaxTime == 308
MaxClaims == 4
NumConsumers == 2
MaxChunks == 2
MaxFaults == 1
MaxPasses == 2
MaxEntities == 2
MaxAttempt == 7
MaxConcurrency == 4
NumCalls == 2
MaxTextLen == 1
MaxClients == 6
MaxPoints == 2
NumLookups == 2
NumCallers == 4

---------------------------------------------------------------------------
(* Program constants *)

\* config.py: MAX_RETRIES = 3
MAX_RETRIES == 3

\* db.py dequeue_task: lease_expires_at = now() + interval '5 minutes'
LeaseSeconds == 300
max_retries == 3
leaseDuration == 300

\* SQL NULL of lease_expires_at / leased_by; also "no row" of a fetchrow
NULL == -1

Tasks == 1..NumTasks
Workers == 1..NumWorkers

---------------------------------------------------------------------------
(* State *)

VARIABLES
    now,        \* the database clock, now(), in seconds
    rows,       \* task_queue: id -> row
    lockedBy,   \* row lock of each task_queue row: the worker whose statement holds it, or NULL
    sel,        \* per worker: the row its running dequeue statement selected FOR UPDATE, or NULL
    held,       \* per worker: the task dict dequeue_task returned and it has not yet reported
    recovered,  \* return value of the last recover_stale_leases call (NULL: never called)
    claims      \* number of dequeue_task calls that returned a task so far

dbvars == <<now, rows, lockedBy, sel, held, recovered, claims>>

VARIABLES
    clock,        \* time.time(), in seconds
    nChunks,      \* totalChunks of the document whose chunks were enqueued (0: nothing enqueued)
    queue,        \* Redis list enrichment:pending; rpush appends at the tail, brpop pops the tail
    dlq,          \* Redis list enrichment:dead-letter; lpush prepends
    pc,           \* per consumer: where worker_task stands
    cur,          \* per consumer: the task it popped
    wake,         \* per consumer: when its asyncio.sleep ends (0: not sleeping)
    hist,         \* per chunk and attempt: the calls made while handling that delivery, in order
    tier3Runs,    \* how often run_document_level_extraction was run for the document
    completed,    \* chunks whose enrichment_complete event was logged
    faults        \* Redis calls that raised so far

wvars == <<clock, nChunks, queue, dlq, pc, cur, wake, hist, tier3Runs, completed, faults>>

\* one delivery going through process_task step by step (pipeline.py)
VARIABLES
    ptask,        \* the task: chunkIndex, totalChunks, attempt
    ppc,          \* where process_task (and then process_task_with_retry) stands
    plog,         \* the calls made so far, in order
    pstatus,      \* Qdrant: enrichmentStatus of each chunk of the document
    ppayload,     \* Qdrant: the enrichment keys present in each chunk's payload
    nlp_result,   \* run_tier2_extraction: what gather gave for process_text_nlp
    language_result, \* run_tier2_extraction: what gather gave for detect_language
    tier2,        \* the value run_tier2_extraction returned
    fullText,     \* the value aggregate_chunks returned
    pfailed,      \* the Qdrant / Neo4j calls that raised inside their helper, with the chunk
    poutcome      \* how process_task ended: "ok", or which adapter call raised

\* the locals of run_tier2_extraction
t2vars == <<nlp_result, language_result, tier2>>

pvars == <<ptask, ppc, plog, pstatus, ppayload, nlp_result, language_result, tier2,
          fullText, pfailed, poutcome>>

\* the stores that hold a document's tier-3 result (graph.py, db.py)
VARIABLES
    gresult,      \* the result being persisted: summary, entities, relationships
    gdoc,         \* Neo4j: the Document node's summary ("none": no node)
    gents,        \* Neo4j: per entity name the Entity node (type, description, mentionCount)
    gment,        \* Neo4j: the entity names the document has a MENTIONS edge to
    grels,        \* Neo4j: per (source, target) the RELATES_TO edge's type
    gpasses,      \* how often write_to_neo4j has persisted the result
    gsnap,        \* the Neo4j state right after the first time
    glog,         \* the graph calls of the last write_to_neo4j, in order
    dbment,       \* Postgres: per entity the document's mention row and the entity's count
    dbcalls       \* per entity how often the document's mention was added

gvars == <<gresult, gdoc, gents, gment, grels, gpasses, gsnap, glog, dbment, dbcalls>>

\* the last call of fail_task per task, as seen by the caller
VARIABLES
    failedAt,      \* the time of the call (NULL: none since the task was claimed)
    failedAttempt  \* the attempt it was called with

bvars == <<failedAt, failedAttempt>>

\* worker_loop and the tasks it creates (main.py)
VARIABLES
    concurrency,  \* WORKER_CONCURRENCY as resolved from the environment
    spc,          \* where worker_loop stands
    tasks,        \* per created consumer task: its state ("none": not created)
    watchdogs,    \* number of watchdog tasks created
    redis,        \* the Redis client of worker_loop: "none", "open", "closed"
    driver,       \* graph._driver: "none", "open", "closed"
    signal        \* how the external interrupt reached worker_loop

svars == <<concurrency, spc, tasks, watchdogs, redis, driver, signal>>

\* tier2.py: concurrent calls of process_text_nlp in worker threads, each for one
\* run_tier2_extraction
VARIABLES
    ntext,     \* per call: the text
    npc,       \* per call: where its thread stands in process_text_nlp / _get_nlp
    ngot,      \* per call: the instance _get_nlp returned (0: none)
    nused,     \* per call: whether it ran the pipeline, nlp(text)
    nres,      \* per call: what run_tier2_extraction returned
    nlpInst,   \* tier2._nlp (0: None, else the number of the load that made it)
    nlock,     \* tier2._nlp_lock: the call that holds it (0: free)
    nloads,    \* how many times spacy.load returned a model
    nfaults,   \* how many times spacy.load or add_pipe raised
    nrank,     \* whether the loaded pipeline has the textrank component
    ngotrank   \* per call: whether the pipeline it got had the component then

nvars == <<ntext, npc, ngot, nused, nres, nlpInst, nlock, nloads, nfaults, nrank, ngotrank>>

\* api_client.py: the HTTP client to the control API
VARIABLES
    client,    \* api_client._client (0: None, else the number of the instance)
    created,   \* how many httpx.AsyncClient instances were created
    closes,    \* per instance: how many times aclose() was called on it
    hgot,      \* per consumer: the instance its last get_client() returned (0: none yet)
    hpc        \* where the caller of close_client stands

hvars == <<client, created, closes, hgot, hpc>>

\* adapters: one call of extract_metadata or extract_entities and what the
\* pipeline makes of its result
VARIABLES
    aprovider,  \* EXTRACTOR_PROVIDER: "ollama", "openai", "anthropic"
    afn,        \* the method called
    aschema,    \* the schema's properties: name -> declared type
    apc,        \* "idle", "request", "returned", "done"
    arequests,  \* generation requests made by the call so far
    alog,       \* the provider's answers to them, in order
    aresult,    \* what the call returned
    atier3      \* what the pipeline took from the result

avars == <<aprovider, afn, aschema, apc, arequests, alog, aresult, atier3>>

\* aggregate_chunks and get_chunks_text for one document
VARIABLES
    ctotal,   \* total_chunks
    cpoints,  \* what the store holds for the document: (chunk index, text), as retrieved
    cpc,      \* "idle", "call", "done"
    cfull,    \* the string aggregate_chunks returned, as its pieces in order
    ctexts    \* the list get_chunks_text returned

cvars == <<ctotal, cpoints, cpc, cfull, ctexts>>

\* api_client.claim_task: one call
VARIABLES
    kdata,     \* the response of the control API
    kpc,       \* "idle", "call", "done"
    krequest,  \* the JSON body that was posted
    kret       \* what claim_task returned

kvars == <<kdata, kpc, krequest, kret>>

\* api_client.submit_result: one call
VARIABLES
    rargs,     \* the arguments tier2, tier3, entities, relationships, summary
    rstatus,   \* the status the control API will answer with
    rpc,       \* "idle", "call", "done"
    rposted,   \* the JSON body that was posted
    rret       \* how submit_result ended

rvars == <<rargs, rstatus, rpc, rposted, rret>>

\* schemas.get_schema_for_doctype: a row of lookups
VARIABLES
    doctypes,  \* the document types to look up, in order
    routed     \* what the router answered, one entry per finished lookup

xvars == <<doctypes, routed>>

\* task_queue under workers that crash or hang: what happened to each task
VARIABLES
    claimed,   \* how often dequeue_task has claimed the task
    everDone   \* whether the task has reached completed or dead

lvars == <<claimed, everDone>>

\* db.get_pool: coroutines that ask for the connection pool
VARIABLES
    pool,      \* db._pool (0: None, else the number of the pool)
    pools,     \* how many pools asyncpg.create_pool has made
    opc,       \* per caller: "idle", "call", "creating", "done"
    ogot       \* per caller: the pool get_pool returned (0: none yet)

ovars == <<pool, pools, opc, ogot>>

\* the variables of the parts added after the queue, the consumer, the pipeline
\* and the stores
evars == <<svars, nvars, hvars, avars, cvars, kvars, rvars, xvars, lvars, ovars>>

vars == <<now, rows, lockedBy, sel, held, recovered, claims,
          clock, nChunks, queue, dlq, pc, cur, wake, hist, tier3Runs, completed, faults,
          ptask, ppc, plog, pstatus, ppayload, nlp_result, language_result, tier2,
          fullText, pfailed, poutcome,
          gresult, gdoc, gents, gment, grels, gpasses, gsnap, glog, dbment, dbcalls,
          failedAt, failedAttempt,
          concurrency, spc, tasks, watchdogs, redis, driver, signal,
          ntext, npc, ngot, nused, nres, nlpInst, nlock, nloads, nfaults, nrank, ngotrank,
          client, created, closes, hgot, hpc,
          aprovider, afn, aschema, apc, arequests, alog, aresult, atier3,
          ctotal, cpoints, cpc, cfull, ctexts,
          kdata, kpc, krequest, kret,
          rargs, rstatus, rpc, rposted, rret,
          doctypes, routed,
          claimed, everDone,
          pool, pools, opc, ogot>>

NoTask == [taskId |-> NULL, attempt |-> NULL]

\* a freshly enqueued row of task_queue
NewRow(id) ==
    [status |-> "pending", attempt |-> 1, run_after |-> 0,
     lease_expires_at |-> NULL, leased_by |-> NULL, created_at |-> id]

InitDB ==
    /\ now = 0
    /\ rows = [t \in Tasks |-> NewRow(t)]
    /\ lockedBy = [t \in Tasks |-> NULL]
    /\ sel = [w \in Workers |-> NULL]
    /\ held = [w \in Workers |-> NoTask]
    /\ recovered = NULL
    /\ claims = 0

---------------------------------------------------------------------------
(* db.py *)

\* fail_task: backoff_seconds = min(2 ** attempt, 60)
Backoff_Uncapped(attempt) == 2 ^ attempt

Backoff(attempt) == IF 2 ^ attempt < 60 THEN 2 ^ attempt ELSE 60

\* WHERE queue = 'enrichment' AND status = 'pending' AND run_after <= now()
Ready_AnyTime(t) == rows[t].status = "pending"

Ready(t) == rows[t].status = "pending" /\ rows[t].run_after <= now

\* ORDER BY run_after, created_at
Before(a, b) ==
    \/ rows[a].run_after < rows[b].run_after
    \/ rows[a].run_after = rows[b].run_after /\ rows[a].created_at <= rows[b].created_at

\* the rows the CTE of dequeue_task may lock: FOR UPDATE SKIP LOCKED passes over
\* the rows another statement has locked
Lockable_NoSkip(t) == Ready(t)
Lockable(t) == Ready(t) /\ lockedBy[t] = NULL

\* SELECT id ... ORDER BY run_after, created_at LIMIT 1 FOR UPDATE SKIP LOCKED
NextRow ==
    LET cand == {t \in Tasks : Lockable(t)}
    IN  IF cand = {} THEN NULL
        ELSE CHOOSE t \in cand : \A u \in cand : Before(t, u)

\* dequeue_task, first half of the statement: the CTE selects and locks a row
DequeueSelect(w) ==
    /\ held[w] = NoTask
    /\ sel[w] = NULL
    /\ NextRow # NULL
    /\ claims < MaxClaims
    /\ sel' = [sel EXCEPT ![w] = NextRow]
    /\ lockedBy' = [lockedBy EXCEPT ![NextRow] = w]
    /\ claims' = claims + 1
    /\ UNCHANGED <<now, rows, held, recovered>>
    /\ UNCHANGED <<wvars, pvars, gvars, bvars, evars>>

\* dequeue_task, second half: UPDATE ... FROM next RETURNING, commit; returns the task
DequeueUpdate(w) ==
    /\ sel[w] # NULL
    /\ LET t == sel[w] IN
        /\ rows' = [rows EXCEPT ![t] =
                       [@ EXCEPT !.status = "processing",
                                 !.lease_expires_at = now + LeaseSeconds,
                                 !.leased_by = w]]
        /\ held' = [held EXCEPT ![w] = [taskId |-> t, attempt |-> rows[t].attempt]]
        /\ lockedBy' = [lockedBy EXCEPT ![t] = NULL]
    /\ sel' = [sel EXCEPT ![w] = NULL]
    /\ UNCHANGED <<now, recovered, claims>>
    /\ UNCHANGED <<wvars, pvars, gvars, bvars, evars>>

\* dequeue_task when the CTE finds no row: fetchrow gives None, nothing changes
DequeueNone(w) ==
    /\ held[w] = NoTask
    /\ sel[w] = NULL
    /\ NextRow = NULL
    /\ UNCHANGED vars

\* complete_task(task_id): UPDATE ... WHERE id = $1
CompletedRow_KeepsLease(r) == [r EXCEPT !.status = "completed"]

CompletedRow(r) ==
    [r EXCEPT !.status = "completed", !.lease_expires_at = NULL, !.leased_by = NULL]

CompleteTask(w) ==
    /\ held[w] # NoTask
    /\ lockedBy[held[w].taskId] = NULL
    /\ rows' = [rows EXCEPT ![held[w].taskId] = CompletedRow(@)]
    /\ held' = [held EXCEPT ![w] = NoTask]
    /\ UNCHANGED <<now, lockedBy, sel, recovered, claims>>
    /\ UNCHANGED <<wvars, pvars, gvars, bvars, evars>>

\* fail_task(task_id, error_msg, attempt, max_attempts): UPDATE ... WHERE id = $1
FailedRow(r, attempt, max_attempts) ==
    IF attempt < max_attempts
    THEN [r EXCEPT !.status = "pending", !.attempt = attempt + 1,
                   !.run_after = now + Backoff(attempt),
                   !.lease_expires_at = NULL, !.leased_by = NULL]
    ELSE [r EXCEPT !.status = "dead", !.lease_expires_at = NULL, !.leased_by = NULL]

FailTask(w) ==
    /\ held[w] # NoTask
    /\ lockedBy[held[w].taskId] = NULL
    /\ rows' = [rows EXCEPT ![held[w].taskId] = FailedRow(@, held[w].attempt, MAX_RETRIES)]
    /\ held' = [held EXCEPT ![w] = NoTask]
    /\ UNCHANGED <<now, lockedBy, sel, recovered, claims>>
    /\ UNCHANGED <<wvars, pvars, gvars, bvars, evars>>

\* recover_stale_leases: WHERE status = 'processing' AND lease_expires_at IS NOT NULL
\*                         AND lease_expires_at < now()
Stale_Inclusive(r, t) ==
    r.status = "processing" /\ r.lease_expires_at # NULL /\ r.lease_expires_at <= t

Stale(r, t) ==
    r.status = "processing" /\ r.lease_expires_at # NULL /\ r.lease_expires_at < t

RecoverStaleLeases ==
    /\ \A t \in Tasks : lockedBy[t] = NULL
    /\ rows' = [t \in Tasks |->
                  IF Stale(rows[t], now)
                  THEN [rows[t] EXCEPT !.status = "pending", !.lease_expires_at = NULL,
                                       !.leased_by = NULL, !.run_after = now]
                  ELSE rows[t]]
    /\ recovered' = Cardinality({t \in Tasks : Stale(rows[t], now)})
    /\ UNCHANGED <<now, lockedBy, sel, held, claims>>
    /\ UNCHANGED <<wvars, pvars, gvars, bvars, evars>>

\* the passage of time between statements: to the next instant at which a
\* comparison with now() can change (a run_after, a lease expiry, the second after it)
EventTimes ==
    UNION {{rows[t].run_after, rows[t].lease_expires_at, rows[t].lease_expires_at + 1} :
           t \in Tasks}

Tick ==
    /\ \A w \in Workers : sel[w] = NULL
    /\ \E t \in EventTimes :
        /\ t > now
        /\ t <= MaxTime
        /\ now' = t
    /\ UNCHANGED <<rows, lockedBy, sel, held, recovered, claims>>
    /\ UNCHANGED <<wvars, pvars, gvars, bvars, evars>>

NextDB ==
    \/ \E w \in Workers : DequeueSelect(w)
    \/ \E w \in Workers : DequeueUpdate(w)
    \/ \E w \in Workers : DequeueNone(w)
    \/ \E w \in Workers : CompleteTask(w)
    \/ \E w \in Workers : FailTask(w)
    \/ RecoverStaleLeases
    \/ Tick

---------------------------------------------------------------------------
(* main.py and pipeline.py: the Redis consumer and the pipeline it runs *)

\* the consumers started by worker_loop (WORKER_CONCURRENCY of the environment)
Consumers == 1..NumConsumers

\* the attempts a task can be delivered with
Attempts == 1..MAX_RETRIES

NoMsg == [chunkIndex |-> NULL, totalChunks |-> NULL, attempt |-> NULL, retryAfter |-> NULL]

\* the task a producer enqueues for chunk i of a document of n chunks;
\* attempt = task.get("attempt", 1), retryAfter = task.get("retryAfter", 0)
NewTask(i, n) == [chunkIndex |-> i, totalChunks |-> n, attempt |-> 1, retryAfter |-> 0]

InitWorkerWith(n) ==
    /\ clock = 0
    /\ nChunks = n
    /\ queue = [i \in 1..n |-> NewTask(i - 1, n)]
    /\ dlq = <<>>
    /\ pc = [c \in Consumers |-> "brpop"]
    /\ cur = [c \in Consumers |-> NoMsg]
    /\ wake = [c \in Consumers |-> 0]
    /\ hist = [d \in (0..(n - 1)) \X Attempts |-> <<>>]
    /\ tier3Runs = 0
    /\ completed = {}
    /\ faults = 0

InitWorker == \E n \in 1..MaxChunks : InitWorkerWith(n)

\* pipeline.py process_task: `if chunk_index == total_chunks - 1`
IsLastChunk_AnyChunk(task) == task.chunkIndex <= task.totalChunks - 1

IsLastChunk_MultiOnly(task) ==
    task.totalChunks > 1 /\ task.chunkIndex = task.totalChunks - 1

IsLastChunk(task) == task.chunkIndex = task.totalChunks - 1

\* what a run of process_task can meet: the adapter calls of tier 3 may raise;
\* tier 2 and the Qdrant writes swallow their errors
Outcomes(task) ==
    IF IsLastChunk(task) THEN {"ok", "metadata_raises", "entities_raises"} ELSE {"ok"}

Raises(outcome) == outcome # "ok"

\* run_document_level_extraction: the calls it makes, in order
Tier3Calls(outcome) ==
    CASE outcome = "metadata_raises" -> <<"aggregate_chunks", "extract_metadata">>
      [] outcome = "entities_raises" ->
            <<"aggregate_chunks", "extract_metadata", "extract_entities">>
      [] OTHER ->
            <<"aggregate_chunks", "extract_metadata", "extract_entities",
              "payload_tier3", "write_to_neo4j">>

\* process_task: the calls it makes, in order
PipelineCalls_EnrichedFirst(task, outcome) ==
    <<"status_processing", "tier2", "payload_tier2", "status_enriched">>
    \o (IF IsLastChunk(task) THEN Tier3Calls(outcome) ELSE <<>>)
    \o (IF Raises(outcome) THEN <<"status_failed">> ELSE <<>>)

PipelineCalls(task, outcome) ==
    <<"status_processing", "tier2", "payload_tier2">>
    \o (IF IsLastChunk(task) THEN Tier3Calls(outcome) ELSE <<>>)
    \o (IF Raises(outcome) THEN <<"status_failed">> ELSE <<"status_enriched">>)

\* main.py: `if attempt < MAX_RETRIES`
ShouldRetry_OffByOne(attempt) == attempt < MAX_RETRIES - 1
ShouldRetry(attempt) == attempt < MAX_RETRIES

\* the delivery a consumer is handling
Delivery(c) == <<cur[c].chunkIndex, cur[c].attempt>>

\* worker_task: `_, raw = await redis_client.brpop(QUEUE_NAME)`, json.loads, and the
\* start of process_task_with_retry up to the backoff sleep
Brpop(c) ==
    /\ pc[c] = "brpop"
    /\ queue # <<>>
    /\ LET task == queue[Len(queue)] IN
        /\ cur' = [cur EXCEPT ![c] = task]
        /\ IF task.retryAfter > clock
           THEN /\ pc' = [pc EXCEPT ![c] = "delay"]
                /\ wake' = [wake EXCEPT ![c] = task.retryAfter]
           ELSE /\ pc' = [pc EXCEPT ![c] = "process"]
                /\ UNCHANGED wake
    /\ queue' = SubSeq(queue, 1, Len(queue) - 1)
    /\ UNCHANGED <<clock, nChunks, dlq, hist, tier3Runs, completed, faults>>
    /\ UNCHANGED <<dbvars, pvars, gvars, bvars, evars>>

\* the error path of worker_task: `except Exception` logs and sleeps 1 second
Caught_Escapes(c) ==
    /\ pc' = [pc EXCEPT ![c] = "exited"]
    /\ UNCHANGED wake

Caught(c) ==
    /\ pc' = [pc EXCEPT ![c] = "pause"]
    /\ wake' = [wake EXCEPT ![c] = clock + 1]

\* brpop raises (Redis unreachable)
BrpopRaises(c) ==
    /\ pc[c] = "brpop"
    /\ faults < MaxFaults
    /\ faults' = faults + 1
    /\ Caught(c)
    /\ UNCHANGED <<clock, nChunks, queue, dlq, cur, hist, tier3Runs, completed>>
    /\ UNCHANGED <<dbvars, pvars, gvars, bvars, evars>>

\* process_task_with_retry: `await asyncio.sleep(delay)` is over
DelayDone_Early(c) ==
    /\ pc[c] = "delay"
    /\ pc' = [pc EXCEPT ![c] = "process"]
    /\ wake' = [wake EXCEPT ![c] = 0]
    /\ UNCHANGED <<clock, nChunks, queue, dlq, cur, hist, tier3Runs, completed, faults>>
    /\ UNCHANGED <<dbvars, pvars, gvars, bvars, evars>>

DelayDone(c) ==
    /\ pc[c] = "delay"
    /\ clock >= wake[c]
    /\ pc' = [pc EXCEPT ![c] = "process"]
    /\ wake' = [wake EXCEPT ![c] = 0]
    /\ UNCHANGED <<clock, nChunks, queue, dlq, cur, hist, tier3Runs, completed, faults>>
    /\ UNCHANGED <<dbvars, pvars, gvars, bvars, evars>>

\* the try block of process_task_with_retry runs process_task with outcome o
Ran(c, o) ==
    /\ pc[c] = "process"
    /\ o \in Outcomes(cur[c])
    /\ tier3Runs' = IF IsLastChunk(cur[c]) THEN tier3Runs + 1 ELSE tier3Runs

\* process_task returns: the completion event is logged, worker_task loops
ProcessOk(c) ==
    /\ \E o \in {"ok"} :
        /\ Ran(c, o)
        /\ hist' = [hist EXCEPT ![Delivery(c)] =
                       @ \o PipelineCalls(cur[c], o) \o <<"enrichment_complete">>]
    /\ completed' = completed \cup {cur[c].chunkIndex}
    /\ pc' = [pc EXCEPT ![c] = "brpop"]
    /\ cur' = [cur EXCEPT ![c] = NoMsg]
    /\ UNCHANGED <<clock, nChunks, queue, dlq, wake, faults>>
    /\ UNCHANGED <<dbvars, pvars, gvars, bvars, evars>>

\* process_task raises and attempt < MAX_RETRIES: rpush with attempt + 1 and retryAfter
ProcessRequeue(c) ==
    /\ \E o \in {"metadata_raises", "entities_raises"} :
        /\ Ran(c, o)
        /\ hist' = [hist EXCEPT ![Delivery(c)] =
                       @ \o PipelineCalls(cur[c], o) \o <<"rpush_pending">>]
    /\ ShouldRetry(cur[c].attempt)
    /\ queue' = Append(queue, [cur[c] EXCEPT !.attempt = cur[c].attempt + 1,
                                             !.retryAfter = clock + Backoff(cur[c].attempt)])
    /\ pc' = [pc EXCEPT ![c] = "brpop"]
    /\ cur' = [cur EXCEPT ![c] = NoMsg]
    /\ UNCHANGED <<clock, nChunks, dlq, wake, completed, faults>>
    /\ UNCHANGED <<dbvars, pvars, gvars, bvars, evars>>

\* process_task raises, otherwise: lpush to the dead-letter queue
ProcessDeadLetter(c) ==
    /\ \E o \in {"metadata_raises", "entities_raises"} :
        /\ Ran(c, o)
        /\ hist' = [hist EXCEPT ![Delivery(c)] =
                       @ \o PipelineCalls(cur[c], o) \o <<"lpush_dead">>]
    /\ ~ShouldRetry(cur[c].attempt)
    /\ dlq' = <<cur[c]>> \o dlq
    /\ pc' = [pc EXCEPT ![c] = "brpop"]
    /\ cur' = [cur EXCEPT ![c] = NoMsg]
    /\ UNCHANGED <<clock, nChunks, queue, wake, completed, faults>>
    /\ UNCHANGED <<dbvars, pvars, gvars, bvars, evars>>

\* process_task raises and the rpush or lpush of the except branch raises too: the
\* exception leaves process_task_with_retry and is caught by worker_task
ProcessPushRaises(c) ==
    /\ \E o \in {"metadata_raises", "entities_raises"} :
        /\ Ran(c, o)
        /\ hist' = [hist EXCEPT ![Delivery(c)] =
                       @ \o PipelineCalls(cur[c], o)
                       \o <<IF ShouldRetry(cur[c].attempt) THEN "rpush_pending" ELSE "lpush_dead",
                            "push_raised">>]
    /\ faults < MaxFaults
    /\ faults' = faults + 1
    /\ Caught(c)
    /\ cur' = [cur EXCEPT ![c] = NoMsg]
    /\ UNCHANGED <<clock, nChunks, queue, dlq, completed>>
    /\ UNCHANGED <<dbvars, pvars, gvars, bvars, evars>>

\* worker_task: `await asyncio.sleep(1)` is over, the loop resumes
PauseDone(c) ==
    /\ pc[c] = "pause"
    /\ clock >= wake[c]
    /\ pc' = [pc EXCEPT ![c] = "brpop"]
    /\ wake' = [wake EXCEPT ![c] = 0]
    /\ UNCHANGED <<clock, nChunks, queue, dlq, cur, hist, tier3Runs, completed, faults>>
    /\ UNCHANGED <<dbvars, pvars, gvars, bvars, evars>>

\* worker_loop on KeyboardInterrupt: every worker task is cancelled; each is at an
\* await, where CancelledError (not an Exception) ends it
Cancel ==
    /\ \E c \in Consumers : pc[c] # "cancelled"
    /\ pc' = [c \in Consumers |-> "cancelled"]
    /\ UNCHANGED <<clock, nChunks, queue, dlq, cur, wake, hist, tier3Runs, completed, faults>>
    /\ UNCHANGED <<dbvars, pvars, gvars, bvars, evars>>

\* time passes, to the end of the next sleep
Sleepers == {c \in Consumers : pc[c] \in {"delay", "pause"}}

ClockTick ==
    /\ \E c \in Sleepers :
        /\ wake[c] > clock
        /\ clock' = wake[c]
    /\ UNCHANGED <<nChunks, queue, dlq, pc, cur, wake, hist, tier3Runs, completed, faults>>
    /\ UNCHANGED <<dbvars, pvars, gvars, bvars, evars>>

NextWorker ==
    \/ \E c \in Consumers : Brpop(c)
    \/ \E c \in Consumers : BrpopRaises(c)
    \/ \E c \in Consumers : DelayDone(c)
    \/ \E c \in Consumers : ProcessOk(c)
    \/ \E c \in Consumers : ProcessRequeue(c)
    \/ \E c \in Consumers : ProcessDeadLetter(c)
    \/ \E c \in Consumers : ProcessPushRaises(c)
    \/ \E c \in Consumers : PauseDone(c)
    \/ Cancel
    \/ ClockTick

---------------------------------------------------------------------------
(* pipeline.py: one run of process_task, call by call *)

\* the chunks of a document of n chunks
Chunks(n) == 0..(n - 1)

NoNlp == [raised |-> FALSE, entities |-> <<>>, keywords |-> <<>>]

NoTier2 == [entities |-> <<>>, keywords |-> <<>>, language |-> "none"]

\* no delivery is being followed
PipelineIdle ==
    /\ ptask = NoMsg
    /\ ppc = "idle"
    /\ plog = <<>>
    /\ pstatus = <<>>
    /\ ppayload = <<>>
    /\ nlp_result = NoNlp
    /\ language_result = "none"
    /\ tier2 = NoTier2
    /\ fullText = "none"
    /\ pfailed = {}
    /\ poutcome = "running"

\* process_task is entered with chunk i of a document of n chunks, delivered
\* for the a-th time; the chunks are in Qdrant as the producer wrote them
InitPipeline ==
    /\ \E n \in 1..MaxChunks : \E i \in Chunks(n) : \E a \in Attempts :
        /\ ptask = [chunkIndex |-> i, totalChunks |-> n, attempt |-> a, retryAfter |-> 0]
        /\ pstatus = [j \in Chunks(n) |-> "pending"]
        /\ ppayload = [j \in Chunks(n) |-> {}]
    /\ ppc = "status_processing"
    /\ plog = <<>>
    /\ nlp_result = NoNlp
    /\ language_result = "none"
    /\ tier2 = NoTier2
    /\ fullText = "none"
    /\ pfailed = {}
    /\ poutcome = "running"

\* what asyncio.to_thread(process_text_nlp, text) can give under gather(...,
\* return_exceptions=True): an exception, or the dict of entities and keywords
NlpResults ==
    {[raised |-> TRUE, entities |-> <<>>, keywords |-> <<>>],
     [raised |-> FALSE, entities |-> <<>>, keywords |-> <<>>],
     [raised |-> FALSE, entities |-> <<"ent">>, keywords |-> <<"kw">>]}

\* what asyncio.to_thread(detect_language, text) can give
LanguageResults == {"Exception", "en", "unknown"}

\* run_tier2_extraction: the dict it builds from the two results
Tier2Of_SharedFailure(nlp, language) ==
    IF nlp.raised \/ language = "Exception"
    THEN [entities |-> <<>>, keywords |-> <<>>, language |-> "unknown"]
    ELSE [entities |-> nlp.entities, keywords |-> nlp.keywords,
          language |-> language]

Tier2Of(nlp, language) ==
    [entities |-> IF nlp.raised THEN <<>> ELSE nlp.entities,
     keywords |-> IF nlp.raised THEN <<>> ELSE nlp.keywords,
     language |-> IF language = "Exception" THEN "unknown" ELSE language]

\* update_enrichment_status: qdrant.set_payload of enrichmentStatus; an exception
\* is logged and swallowed
SetStatus(status, ok) ==
    /\ plog' = Append(plog, "status_" \o status)
    /\ IF ok
       THEN pstatus' = [pstatus EXCEPT ![ptask.chunkIndex] = status] /\ UNCHANGED pfailed
       ELSE UNCHANGED pstatus /\ pfailed' = pfailed \cup {<<"status_" \o status, ptask.chunkIndex>>}

\* the frame of a step of the pipeline
PipelineStep(from, to) ==
    /\ ppc = from
    /\ ppc' = to
    /\ UNCHANGED ptask
    /\ UNCHANGED <<dbvars, wvars, gvars, bvars, evars>>

\* await update_enrichment_status(qdrant_id, collection, "processing")
UpdateStatusProcessing ==
    /\ PipelineStep("status_processing", "tier2")
    /\ \E ok \in BOOLEAN : SetStatus("processing", ok)
    /\ UNCHANGED <<ppayload, t2vars, fullText, poutcome>>

\* tier2_data = await run_tier2_extraction(text)
RunTier2Extraction ==
    /\ PipelineStep("tier2", "payload_tier2")
    /\ nlp_result' \in NlpResults
    /\ language_result' \in LanguageResults
    /\ tier2' = Tier2Of(nlp_result', language_result')
    /\ plog' = Append(plog, "tier2")
    /\ UNCHANGED <<pstatus, ppayload, fullText, pfailed, poutcome>>

\* await update_payload(qdrant_id, collection, {"tier2": tier2_data}), then
\* `if chunk_index == total_chunks - 1`
UpdatePayloadTier2 ==
    /\ PipelineStep("payload_tier2",
                    IF IsLastChunk(ptask) THEN "aggregate_chunks" ELSE "status_enriched")
    /\ plog' = Append(plog, "payload_tier2")
    /\ \E ok \in BOOLEAN :
        IF ok
        THEN /\ ppayload' = [ppayload EXCEPT ![ptask.chunkIndex] = @ \cup {"tier2"}]
             /\ UNCHANGED pfailed
        ELSE /\ UNCHANGED ppayload
             /\ pfailed' = pfailed \cup {<<"payload_tier2", ptask.chunkIndex>>}
    /\ UNCHANGED <<pstatus, t2vars, fullText, poutcome>>

\* run_document_level_extraction: full_text = await aggregate_chunks(...);
\* qdrant.retrieve may raise or find no point, and then the text is ""
AggregateChunks(lookup) ==
    /\ ppc' = "extract_metadata"
    /\ fullText' = IF lookup = "found" THEN "text" ELSE ""
    /\ UNCHANGED poutcome

RunAggregateChunks ==
    /\ ppc = "aggregate_chunks"
    /\ \E lookup \in {"found", "retrieve_raises", "no_points"} :
        /\ AggregateChunks(lookup)
        /\ pfailed' = IF lookup = "found" THEN pfailed ELSE pfailed \cup {<<lookup, NULL>>}
    /\ plog' = Append(plog, "aggregate_chunks")
    /\ UNCHANGED <<ptask, pstatus, ppayload, t2vars>>
    /\ UNCHANGED <<dbvars, wvars, gvars, bvars, evars>>

\* tier3_meta = await adapter.extract_metadata(...): returns, or raises, and the
\* exception leaves run_document_level_extraction for the except branch of
\* process_task
ExtractMetadata ==
    /\ ppc = "extract_metadata"
    /\ \E raises \in BOOLEAN :
        IF raises
        THEN ppc' = "except" /\ poutcome' = "metadata_raises"
        ELSE ppc' = "extract_entities" /\ UNCHANGED poutcome
    /\ plog' = Append(plog, "extract_metadata")
    /\ UNCHANGED <<ptask, pstatus, ppayload, t2vars, fullText, pfailed>>
    /\ UNCHANGED <<dbvars, wvars, gvars, bvars, evars>>

\* entity_result = await adapter.extract_entities(full_text)
ExtractEntities ==
    /\ ppc = "extract_entities"
    /\ \E raises \in BOOLEAN :
        IF raises
        THEN ppc' = "except" /\ poutcome' = "entities_raises"
        ELSE ppc' = "payload_tier3" /\ UNCHANGED poutcome
    /\ plog' = Append(plog, "extract_entities")
    /\ UNCHANGED <<ptask, pstatus, ppayload, t2vars, fullText, pfailed>>
    /\ UNCHANGED <<dbvars, wvars, gvars, bvars, evars>>

\* the tier-3 payload is written to every chunk of the document; update_payload
\* swallows its exception, and gather(..., return_exceptions=True) only logs
Tier3Written(failing) ==
    /\ ppc' = "write_to_neo4j"
    /\ UNCHANGED poutcome

UpdateTier3Payloads ==
    /\ ppc = "payload_tier3"
    /\ \E failing \in SUBSET Chunks(ptask.totalChunks) :
        /\ ppayload' = [j \in Chunks(ptask.totalChunks) |->
                           IF j \in failing THEN ppayload[j] ELSE ppayload[j] \cup {"tier3"}]
        /\ pfailed' = pfailed \cup {<<"payload_tier3", j>> : j \in failing}
        /\ Tier3Written(failing)
    /\ plog' = Append(plog, "payload_tier3")
    /\ UNCHANGED <<ptask, pstatus, t2vars, fullText>>
    /\ UNCHANGED <<dbvars, wvars, gvars, bvars, evars>>

\* write_to_neo4j: the graph calls it makes, any of which may raise
GraphCalls == {"upsert_document", "upsert_entity", "add_mention", "add_relationship"}

\* write_to_neo4j: `except Exception` logs a warning and does not raise, so
\* run_document_level_extraction goes on to its end and process_task to the
\* status write
GraphWritten_Raising(raised) ==
    IF raised = "none"
    THEN ppc' = "status_enriched" /\ UNCHANGED poutcome
    ELSE ppc' = "except" /\ poutcome' = "neo4j_raises"

GraphWritten(raised) ==
    /\ ppc' = "status_enriched"
    /\ UNCHANGED poutcome

\* await write_to_neo4j(...): every graph call returns, or one of them raises
WriteToNeo4j ==
    /\ ppc = "write_to_neo4j"
    /\ \E raised \in GraphCalls \cup {"none"} :
        /\ pfailed' = IF raised = "none" THEN pfailed ELSE pfailed \cup {<<raised, NULL>>}
        /\ GraphWritten(raised)
    /\ plog' = Append(plog, "write_to_neo4j")
    /\ UNCHANGED <<ptask, pstatus, ppayload, t2vars, fullText>>
    /\ UNCHANGED <<dbvars, wvars, gvars, bvars, evars>>

\* await update_enrichment_status(qdrant_id, collection, "enriched"); process_task
\* returns
Finished(ok) ==
    /\ ppc' = "returned"
    /\ poutcome' = "ok"

UpdateStatusEnriched ==
    /\ ppc = "status_enriched"
    /\ \E ok \in BOOLEAN :
        /\ SetStatus("enriched", ok)
        /\ Finished(ok)
    /\ UNCHANGED <<ptask, ppayload, t2vars, fullText>>
    /\ UNCHANGED <<dbvars, wvars, gvars, bvars, evars>>

\* except Exception: await update_enrichment_status(qdrant_id, collection,
\* "failed"); raise
UpdateStatusFailed_Unmarked ==
    /\ PipelineStep("except", "raised")
    /\ UNCHANGED <<plog, pstatus, pfailed, ppayload, t2vars, fullText, poutcome>>

UpdateStatusFailed ==
    /\ PipelineStep("except", "raised")
    /\ \E ok \in BOOLEAN : SetStatus("failed", ok)
    /\ UNCHANGED <<ppayload, t2vars, fullText, poutcome>>

\* main.py process_task_with_retry after process_task returned: the completion
\* event is logged
HandleReturn ==
    /\ PipelineStep("returned", "done")
    /\ plog' = Append(plog, "enrichment_complete")
    /\ UNCHANGED <<pstatus, ppayload, t2vars, fullText, pfailed, poutcome>>

\* main.py process_task_with_retry after process_task raised: re-queue or
\* dead-letter
HandleRaise ==
    /\ PipelineStep("raised", "done")
    /\ plog' = Append(plog, IF ShouldRetry(ptask.attempt) THEN "rpush_pending"
                                                           ELSE "lpush_dead")
    /\ UNCHANGED <<pstatus, ppayload, t2vars, fullText, pfailed, poutcome>>

NextPipeline ==
    \/ UpdateStatusProcessing
    \/ RunTier2Extraction
    \/ UpdatePayloadTier2
    \/ RunAggregateChunks
    \/ ExtractMetadata
    \/ ExtractEntities
    \/ UpdateTier3Payloads
    \/ WriteToNeo4j
    \/ UpdateStatusEnriched
    \/ UpdateStatusFailed
    \/ HandleReturn
    \/ HandleRaise

---------------------------------------------------------------------------
(* graph.py, db.py: persisting a document's tier-3 result *)

\* the entity names an adapter may return; "" is a missing name
Names == {"A", "B"}

NoNode == [exists |-> FALSE, type |-> "none", description |-> "none", mentionCount |-> NULL]

\* a node that MERGE created by its name alone
BareNode == [NoNode EXCEPT !.exists = TRUE]

\* the entities and relationships of an adapter result
EntityItems == [name : Names \cup {""}, type : {"class"}, description : {"d"}]

RelItems == [source : Names \cup {""}, target : Names \cup {""}, type : {"uses"}]

SeqsUpTo(S, n) == UNION {[1..k -> S] : k \in 0..n}

\* the Neo4j state as one value
GraphState == [doc |-> gdoc, ents |-> gents, ment |-> gment, rels |-> grels, log |-> <<>>]

EmptyGraph ==
    [doc |-> "none", ents |-> [x \in Names |-> NoNode], ment |-> {},
     rels |-> [x \in Names \X Names |-> "none"], log |-> <<>>]

\* no mention row of the document, no count on the entity
NoMention == [mention_count |-> 0, entity_count |-> 0]

\* nothing is being persisted
PersistIdle ==
    /\ gresult = [summary |-> "none", entities |-> <<>>, relationships |-> <<>>]
    /\ gdoc = "none"
    /\ gents = EmptyGraph.ents
    /\ gment = {}
    /\ grels = EmptyGraph.rels
    /\ gpasses = 0
    /\ gsnap = EmptyGraph
    /\ glog = <<>>
    /\ dbment = [x \in Names |-> NoMention]
    /\ dbcalls = [x \in Names |-> 0]

\* a tier-3 result is about to be persisted into empty stores
InitPersist ==
    /\ gresult \in [summary : {"s"}, entities : SeqsUpTo(EntityItems, MaxEntities),
                    relationships : SeqsUpTo(RelItems, 1)]
    /\ gdoc = "none"
    /\ gents = EmptyGraph.ents
    /\ gment = {}
    /\ grels = EmptyGraph.rels
    /\ gpasses = 0
    /\ gsnap = EmptyGraph
    /\ glog = <<>>
    /\ dbment = [x \in Names |-> NoMention]
    /\ dbcalls = [x \in Names |-> 0]

\* graph.upsert_document: MERGE (d:Document {id}) SET d.summary = ...
UpsertDocument(g, summary) ==
    [g EXCEPT !.doc = summary,
              !.log = Append(@, [call |-> "upsert_document", a |-> summary, b |-> ""])]

\* graph.upsert_entity: MERGE (e:Entity {name}) SET type, description,
\* mentionCount = coalesce(e.mentionCount, 0) + 1
UpsertEntity(g, e) ==
    [g EXCEPT !.ents[e.name] =
        [exists |-> TRUE, type |-> e.type, description |-> e.description,
         mentionCount |-> (IF @.mentionCount = NULL THEN 0 ELSE @.mentionCount) + 1],
              !.log = Append(@, [call |-> "upsert_entity", a |-> e.name, b |-> e.type])]

\* graph.add_mention: MATCH the document and the entity, MERGE the MENTIONS edge
AddMention(g, name) ==
    [g EXCEPT !.ment = IF g.doc # "none" /\ g.ents[name].exists THEN @ \cup {name} ELSE @,
              !.log = Append(@, [call |-> "add_mention", a |-> name, b |-> ""])]

\* graph.add_relationship: MERGE both Entity nodes and the RELATES_TO edge, SET
\* its type
AddRelationship(g, r) ==
    [g EXCEPT !.ents[r.source] = IF @.exists THEN @ ELSE BareNode,
              !.ents[r.target] = IF @.exists THEN @ ELSE BareNode,
              !.rels[<<r.source, r.target>>] = r.type,
              !.log = Append(@, [call |-> "add_relationship", a |-> r.source, b |-> r.target])]

\* write_to_neo4j: `if entity_name`
Named(e) == e.name # ""

\* write_to_neo4j: `if source_entity and target_entity`
Complete_SourceOnly(r) == r.source # ""

Complete(r) == r.source # "" /\ r.target # ""

\* write_to_neo4j: the loop over the entities (those with a name)
RECURSIVE WriteEntities(_, _)
WriteEntities(g, es) ==
    IF es = <<>> THEN g
    ELSE LET e == Head(es) IN
         WriteEntities(IF Named(e) THEN AddMention(UpsertEntity(g, e), e.name) ELSE g,
                       Tail(es))

\* write_to_neo4j: the loop over the relationships (those with both ends)
RECURSIVE WriteRelationships(_, _)
WriteRelationships(g, rs) ==
    IF rs = <<>> THEN g
    ELSE LET r == Head(rs) IN
         WriteRelationships(IF Complete(r) THEN AddRelationship(g, r) ELSE g, Tail(rs))

\* write_to_neo4j, all of it
Persisted(g, result) ==
    WriteRelationships(WriteEntities(UpsertDocument(g, result.summary), result.entities),
                       result.relationships)

\* a run of write_to_neo4j for the result (again on every delivery of the last
\* chunk)
PersistGraph ==
    /\ gpasses < MaxPasses
    /\ LET g == Persisted(GraphState, gresult) IN
        /\ gdoc' = g.doc
        /\ gents' = g.ents
        /\ gment' = g.ment
        /\ grels' = g.rels
        /\ gsnap' = IF gpasses = 0 THEN [g EXCEPT !.log = <<>>] ELSE gsnap
        /\ glog' = g.log
    /\ gpasses' = gpasses + 1
    /\ UNCHANGED <<gresult, dbment, dbcalls>>
    /\ UNCHANGED <<dbvars, wvars, pvars, bvars, evars>>

\* db.add_document_mention: INSERT ... VALUES (.., 1) ON CONFLICT DO UPDATE SET
\* mention_count = mention_count + 1, then the entity's mention_count is set to
\* the number of distinct documents that mention it (here: this one)
AddDocumentMention(m) ==
    [mention_count |-> m.mention_count + 1, entity_count |-> 1]

\* a call of db.add_document_mention for the document and an entity
PersistMention ==
    \E name \in Names :
        /\ dbcalls[name] < MaxPasses
        /\ dbment' = [dbment EXCEPT ![name] = AddDocumentMention(@)]
        /\ dbcalls' = [dbcalls EXCEPT ![name] = @ + 1]
        /\ UNCHANGED <<gresult, gdoc, gents, gment, grels, gpasses, gsnap, glog>>
        /\ UNCHANGED <<dbvars, wvars, pvars, bvars, evars>>

NextPersist ==
    \/ PersistGraph
    \/ PersistMention

---------------------------------------------------------------------------
(* db.py: fail_task and the time until the task is eligible again *)

\* no call of fail_task is being followed
BackoffIdle ==
    /\ failedAt = [t \in Tasks |-> NULL]
    /\ failedAttempt = [t \in Tasks |-> NULL]

\* one task is being processed by a worker at some attempt, the others are done
InitBackoff ==
    \E t \in Tasks, w \in Workers, a \in 1..MaxAttempt :
        /\ now = 0
        /\ rows = [u \in Tasks |->
                     IF u = t
                     THEN [NewRow(u) EXCEPT !.status = "processing", !.attempt = a,
                                            !.lease_expires_at = LeaseSeconds,
                                            !.leased_by = w]
                     ELSE CompletedRow(NewRow(u))]
        /\ lockedBy = [u \in Tasks |-> NULL]
        /\ sel = [v \in Workers |-> NULL]
        /\ held = [v \in Workers |-> IF v = w THEN [taskId |-> t, attempt |-> a] ELSE NoTask]
        /\ recovered = NULL
        /\ claims = 0
        /\ BackoffIdle

\* fail_task(task_id, error_msg, attempt, max_attempts) by the worker that holds
\* the task
FailTaskAt(w) ==
    /\ held[w] # NoTask
    /\ \E max_attempts \in 1..MaxAttempt :
        rows' = [rows EXCEPT ![held[w].taskId] = FailedRow(@, held[w].attempt, max_attempts)]
    /\ failedAt' = [failedAt EXCEPT ![held[w].taskId] = now]
    /\ failedAttempt' = [failedAttempt EXCEPT ![held[w].taskId] = held[w].attempt]
    /\ held' = [held EXCEPT ![w] = NoTask]
    /\ UNCHANGED <<now, lockedBy, sel, recovered, claims>>
    /\ UNCHANGED <<wvars, pvars, gvars, evars>>

\* dequeue_task, both halves at once: an eligible row is claimed again
Reclaim(w) ==
    /\ held[w] = NoTask
    /\ NextRow # NULL
    /\ LET t == NextRow IN
        /\ rows' = [rows EXCEPT ![t] =
                       [@ EXCEPT !.status = "processing",
                                 !.lease_expires_at = now + LeaseSeconds,
                                 !.leased_by = w]]
        /\ held' = [held EXCEPT ![w] = [taskId |-> t, attempt |-> rows[t].attempt]]
        /\ failedAt' = [failedAt EXCEPT ![t] = NULL]
        /\ failedAttempt' = [failedAttempt EXCEPT ![t] = NULL]
    /\ UNCHANGED <<now, lockedBy, sel, recovered, claims>>
    /\ UNCHANGED <<wvars, pvars, gvars, evars>>

\* time passes up to the second before a task's run_after, or up to it
Elapse ==
    /\ \E t \in Tasks : \E d \in {rows[t].run_after - 1, rows[t].run_after} :
        /\ d > now
        /\ d <= MaxTime
        /\ now' = d
    /\ UNCHANGED <<rows, lockedBy, sel, held, recovered, claims, failedAt, failedAttempt>>
    /\ UNCHANGED <<wvars, pvars, gvars, evars>>

NextBackoff ==
    \/ \E w \in Workers : FailTaskAt(w)
    \/ \E w \in Workers : Reclaim(w)
    \/ Elapse

---------------------------------------------------------------------------
(* main.py: worker_loop, start and shutdown *)

ConsumerTasks == 1..MaxConcurrency

Created == {i \in ConsumerTasks : tasks[i] # "none"}

\* consumer tasks that hold a popped task
InFlight == {i \in ConsumerTasks : tasks[i] = "busy"}

\* consumer tasks that have not ended
Alive == {i \in ConsumerTasks : tasks[i] \in {"idle", "busy", "cancelling"}}

\* worker_loop has not been called
SchedulerIdle ==
    /\ concurrency = 0
    /\ spc = "idle"
    /\ tasks = [i \in ConsumerTasks |-> "none"]
    /\ watchdogs = 0
    /\ redis = "none"
    /\ driver = "none"
    /\ signal = "none"

\* asyncio.run(worker_loop()) begins; WORKER_CONCURRENCY was read from the
\* environment when config was imported
InitScheduler ==
    /\ concurrency \in 1..MaxConcurrency
    /\ spc = "start"
    /\ tasks = [i \in ConsumerTasks |-> "none"]
    /\ watchdogs = 0
    /\ redis = "none"
    /\ driver = "none"
    /\ signal = "none"

\* the other parts stand still while worker_loop is followed
SchedulerStep ==
    UNCHANGED <<dbvars, wvars, pvars, gvars, bvars, nvars, hvars, avars, cvars, kvars, rvars, xvars, lvars, ovars>>

\* worker_loop up to `await asyncio.gather(*workers)`: the client, then one
\* worker_task per range(WORKER_CONCURRENCY)
Launch ==
    /\ spc = "start"
    /\ redis' = "open"
    /\ tasks' = [i \in ConsumerTasks |-> IF i <= concurrency THEN "idle" ELSE "none"]
    /\ spc' = "gather"
    /\ UNCHANGED <<concurrency, watchdogs, driver, signal>>
    /\ SchedulerStep

\* worker_task: brpop returned a task, process_task_with_retry begins
TaskPops(i) ==
    /\ tasks[i] = "idle"
    /\ tasks' = [tasks EXCEPT ![i] = "busy"]
    /\ UNCHANGED <<concurrency, spc, watchdogs, redis, driver, signal>>
    /\ SchedulerStep

\* worker_task: process_task_with_retry returned, the loop is back at brpop; the
\* task may have used the graph (get_driver creates the driver when there is none)
TaskSettles(i) ==
    /\ tasks[i] = "busy"
    /\ tasks' = [tasks EXCEPT ![i] = "idle"]
    /\ \E usedGraph \in BOOLEAN :
        driver' = IF usedGraph THEN "open" ELSE driver
    /\ UNCHANGED <<concurrency, spc, watchdogs, redis, signal>>
    /\ SchedulerStep

\* the external interrupt reaches worker_loop at its await: as KeyboardInterrupt,
\* which the except clause handles by cancelling every worker, or as the
\* CancelledError of asyncio.run's SIGINT handling, which cancels the gather (and
\* through it the workers) and goes straight to the finally clause
Interrupt ==
    /\ spc = "gather"
    /\ \E sig \in {"KeyboardInterrupt", "CancelledError"} :
        /\ signal' = sig
        /\ spc' = IF sig = "KeyboardInterrupt" THEN "await_cancelled" ELSE "close_redis"
    /\ tasks' = [i \in ConsumerTasks |-> IF i \in Alive THEN "cancelling" ELSE tasks[i]]
    /\ UNCHANGED <<concurrency, watchdogs, redis, driver>>
    /\ SchedulerStep

\* a cancelled worker_task receives CancelledError at its await and ends
TaskEnds(i) ==
    /\ tasks[i] = "cancelling"
    /\ tasks' = [tasks EXCEPT ![i] = "cancelled"]
    /\ UNCHANGED <<concurrency, spc, watchdogs, redis, driver, signal>>
    /\ SchedulerStep

\* `await asyncio.gather(*workers, return_exceptions=True)` returns
AwaitCancelled ==
    /\ spc = "await_cancelled"
    /\ Alive = {}
    /\ spc' = "close_redis"
    /\ UNCHANGED <<concurrency, tasks, watchdogs, redis, driver, signal>>
    /\ SchedulerStep

\* finally: `await redis_client.close()`, which may raise and so end worker_loop
CloseRedis ==
    /\ spc = "close_redis"
    /\ \E ok \in BOOLEAN :
        /\ redis' = IF ok THEN "closed" ELSE redis
        /\ spc' = IF ok THEN "close_driver" ELSE "exited"
    /\ UNCHANGED <<concurrency, tasks, watchdogs, driver, signal>>
    /\ SchedulerStep

\* finally: `await graph.close_driver()`: if _driver: close it, _driver = None
CloseDriver ==
    /\ spc = "close_driver"
    /\ driver' = IF driver = "open" THEN "closed" ELSE driver
    /\ spc' = "exited"
    /\ UNCHANGED <<concurrency, tasks, watchdogs, redis, signal>>
    /\ SchedulerStep

NextScheduler ==
    \/ Launch
    \/ \E i \in ConsumerTasks : TaskPops(i)
    \/ \E i \in ConsumerTasks : TaskSettles(i)
    \/ Interrupt
    \/ \E i \in ConsumerTasks : TaskEnds(i)
    \/ AwaitCancelled
    \/ CloseRedis
    \/ CloseDriver


---------------------------------------------------------------------------
(* tier2.py: the lazily loaded NLP pipeline and the tier-2 result *)

Calls == 1..NumCalls

Whitespace == {" ", "\n"}

Chars == Whitespace \cup {"a"}

\* texts, as sequences of characters
Texts == UNION {[1..k -> Chars] : k \in 0..MaxTextLen}

\* str.strip(): leading and trailing whitespace removed
RECURSIVE Strip(_)
Strip(text) ==
    IF text = <<>> THEN text
    ELSE IF Head(text) \in Whitespace THEN Strip(Tail(text))
    ELSE IF text[Len(text)] \in Whitespace THEN Strip(SubSeq(text, 1, Len(text) - 1))
    ELSE text

\* process_text_nlp: `if not text or not text.strip()`
IsBlank_EmptyOnly(text) == text = <<>>

IsBlank(text) == text = <<>> \/ Strip(text) = <<>>

\* detect_language: text.replace("\n", " ").strip()
Normalized(text) == Strip([i \in 1..Len(text) |-> IF text[i] = "\n" THEN " " ELSE text[i]])

\* detect_language: what it can return; "unknown" for a blank text and when
\* detect raises
DetectLanguage(text) ==
    IF Normalized(text) = <<>> THEN {"unknown"} ELSE {"en", "unknown"}

\* process_text_nlp: the early return for a blank text
EmptyNlp == [raised |-> FALSE, entities |-> <<>>, keywords |-> <<>>]

\* no call is being followed
NlpIdle ==
    /\ ntext = [c \in Calls |-> <<>>]
    /\ npc = [c \in Calls |-> "idle"]
    /\ ngot = [c \in Calls |-> 0]
    /\ nused = [c \in Calls |-> FALSE]
    /\ nres = [c \in Calls |-> NoTier2]
    /\ nlpInst = 0
    /\ nlock = 0
    /\ nloads = 0
    /\ nfaults = 0
    /\ nrank = FALSE
    /\ ngotrank = [c \in Calls |-> FALSE]

\* run_tier2_extraction was called for each text; nothing is loaded
InitNlp ==
    /\ ntext \in [Calls -> Texts]
    /\ npc = [c \in Calls |-> "call"]
    /\ ngot = [c \in Calls |-> 0]
    /\ nused = [c \in Calls |-> FALSE]
    /\ nres = [c \in Calls |-> NoTier2]
    /\ nlpInst = 0
    /\ nlock = 0
    /\ nloads = 0
    /\ nfaults = 0
    /\ nrank = FALSE
    /\ ngotrank = [c \in Calls |-> FALSE]

\* a step of call c from one position to the next; the other parts stand still
NlpStep(c, from, to) ==
    /\ npc[c] = from
    /\ npc' = [npc EXCEPT ![c] = to]
    /\ UNCHANGED ntext
    /\ UNCHANGED <<dbvars, wvars, pvars, gvars, bvars, svars, hvars, avars, cvars, kvars, rvars, xvars, lvars, ovars>>

\* run_tier2_extraction: the dict built from the two thread results
ReturnTier2(c, nlp) ==
    \E language \in DetectLanguage(ntext[c]) :
        nres' = [nres EXCEPT ![c] = Tier2Of(nlp, language)]

\* process_text_nlp: the test of the text; a blank one returns the empty lists
\* at once
ProcessTextNlp(c) ==
    /\ IF IsBlank(ntext[c])
       THEN /\ NlpStep(c, "call", "done")
            /\ ReturnTier2(c, EmptyNlp)
       ELSE /\ NlpStep(c, "call", "check")
            /\ UNCHANGED nres
    /\ UNCHANGED <<ngot, nused, nlpInst, nlock, nloads, nfaults, nrank, ngotrank>>

\* _get_nlp: `if _nlp is None` outside the lock
FirstCheck(c) ==
    /\ NlpStep(c, "check", IF nlpInst = 0 THEN "lock" ELSE "return")
    /\ UNCHANGED <<ngot, nused, nres, nlpInst, nlock, nloads, nfaults, nrank, ngotrank>>

\* _get_nlp: `with _nlp_lock:` is entered
Acquire(c) ==
    /\ nlock = 0
    /\ NlpStep(c, "lock", "locked_check")
    /\ nlock' = c
    /\ UNCHANGED <<ngot, nused, nres, nlpInst, nloads, nfaults, nrank, ngotrank>>

\* _get_nlp: `if _nlp is None` inside the lock
LockedCheck_NoRecheck(c) ==
    /\ NlpStep(c, "locked_check", "load")
    /\ UNCHANGED <<ngot, nused, nres, nlpInst, nlock, nloads, nfaults, nrank, ngotrank>>

LockedCheck(c) ==
    /\ NlpStep(c, "locked_check", IF nlpInst = 0 THEN "load" ELSE "unlock")
    /\ UNCHANGED <<ngot, nused, nres, nlpInst, nlock, nloads, nfaults, nrank, ngotrank>>

\* _get_nlp: `_nlp = spacy.load("en_core_web_sm")`
Load(c) ==
    /\ NlpStep(c, "load", "textrank")
    /\ nloads' = nloads + 1
    /\ nlpInst' = nloads + 1
    /\ UNCHANGED <<ngot, nused, nres, nlock, nfaults, nrank, ngotrank>>

\* spacy.load raises: RuntimeError leaves the with block (the lock is released)
\* and process_text_nlp; run_tier2_extraction takes the exception as its NLP result
LoadRaises(c) ==
    /\ nfaults < MaxFaults
    /\ NlpStep(c, "load", "done")
    /\ nfaults' = nfaults + 1
    /\ nlock' = 0
    /\ ReturnTier2(c, [raised |-> TRUE, entities |-> <<>>, keywords |-> <<>>])
    /\ UNCHANGED <<ngot, nused, nlpInst, nloads, nrank, ngotrank>>

\* _get_nlp: `import pytextrank` and `_nlp.add_pipe("textrank")`, still inside
\* the lock
AddTextRank(c) ==
    /\ NlpStep(c, "textrank", "unlock")
    /\ nrank' = TRUE
    /\ UNCHANGED <<ngot, nused, nres, nlpInst, nlock, nloads, nfaults, ngotrank>>

\* the import or add_pipe raises: RuntimeError leaves the with block and
\* process_text_nlp; _nlp keeps the pipeline assigned by the line before
AddTextRankRaises(c) ==
    /\ nfaults < MaxFaults
    /\ NlpStep(c, "textrank", "done")
    /\ nfaults' = nfaults + 1
    /\ nlock' = 0
    /\ ReturnTier2(c, [raised |-> TRUE, entities |-> <<>>, keywords |-> <<>>])
    /\ UNCHANGED <<ngot, nused, nlpInst, nloads, nrank, ngotrank>>

\* _get_nlp: the with block is left
Release(c) ==
    /\ NlpStep(c, "unlock", "return")
    /\ nlock' = 0
    /\ UNCHANGED <<ngot, nused, nres, nlpInst, nloads, nfaults, nrank, ngotrank>>

\* _get_nlp: `return _nlp`
ReturnNlp(c) ==
    /\ NlpStep(c, "return", "use")
    /\ ngot' = [ngot EXCEPT ![c] = nlpInst]
    /\ ngotrank' = [ngotrank EXCEPT ![c] = nrank]
    /\ UNCHANGED <<nused, nres, nlpInst, nlock, nloads, nfaults, nrank>>

\* process_text_nlp: `doc = nlp(text)` and the lists taken from doc; without the
\* textrank component doc._.phrases raises
RunNlp(c) ==
    /\ NlpStep(c, "use", "done")
    /\ nused' = [nused EXCEPT ![c] = TRUE]
    /\ ReturnTier2(c, IF nrank
                       THEN [raised |-> FALSE, entities |-> <<"ent">>, keywords |-> <<"kw">>]
                       ELSE [raised |-> TRUE, entities |-> <<>>, keywords |-> <<>>])
    /\ UNCHANGED <<ngot, nlpInst, nlock, nloads, nfaults, nrank, ngotrank>>

NextNlp ==
    \/ \E c \in Calls : ProcessTextNlp(c)
    \/ \E c \in Calls : FirstCheck(c)
    \/ \E c \in Calls : Acquire(c)
    \/ \E c \in Calls : LockedCheck(c)
    \/ \E c \in Calls : Load(c)
    \/ \E c \in Calls : LoadRaises(c)
    \/ \E c \in Calls : AddTextRank(c)
    \/ \E c \in Calls : AddTextRankRaises(c)
    \/ \E c \in Calls : Release(c)
    \/ \E c \in Calls : ReturnNlp(c)
    \/ \E c \in Calls : RunNlp(c)


---------------------------------------------------------------------------
(* api_client.py: get_client, close_client *)

Clients == 1..MaxClients

\* the module as imported: _client = None
InitClient ==
    /\ client = 0
    /\ created = 0
    /\ closes = [i \in Clients |-> 0]
    /\ hgot = [c \in Consumers |-> 0]
    /\ hpc = "idle"

\* the other parts stand still while the client is followed
ClientStep ==
    UNCHANGED <<dbvars, wvars, pvars, gvars, bvars, svars, nvars, avars, cvars, kvars, rvars, xvars, lvars, ovars>>

\* get_client() called by consumer c: `if _client is None` creates one; returns
\* _client (no await: the call is one step of the event loop)
GetClient(c) ==
    /\ IF client = 0
       THEN /\ created < MaxClients
            /\ created' = created + 1
            /\ client' = created + 1
       ELSE UNCHANGED <<client, created>>
    /\ hgot' = [hgot EXCEPT ![c] = client']
    /\ UNCHANGED <<closes, hpc>>
    /\ ClientStep

\* close_client(), up to its await: `if _client: await _client.aclose()` (with
\* _client None the call does nothing)
CloseClient ==
    /\ hpc = "idle"
    /\ client # 0
    /\ closes' = [closes EXCEPT ![client] = @ + 1]
    /\ hpc' = "aclose"
    /\ UNCHANGED <<client, created, hgot>>
    /\ ClientStep

\* close_client(), after the await: `_client = None`
Cleared_Kept ==
    /\ hpc = "aclose"
    /\ hpc' = "idle"
    /\ UNCHANGED <<client, created, closes, hgot>>
    /\ ClientStep

Cleared ==
    /\ hpc = "aclose"
    /\ client' = 0
    /\ hpc' = "idle"
    /\ UNCHANGED <<created, closes, hgot>>
    /\ ClientStep

NextClient ==
    \/ \E c \in Consumers : GetClient(c)
    \/ CloseClient
    \/ Cleared


---------------------------------------------------------------------------
(* adapters/ollama.py, openai.py, anthropic.py: structured extraction *)

Providers == {"ollama", "openai", "anthropic"}

\* a dict with no key
NoDict == [k \in {} |-> ""]

\* the declared types of a schema's properties; "integer" stands for every type
\* other than array, string, object
PropTypes == {"array", "string", "object", "integer"}

\* extract_entities: the schema it passes
EntitySchema == [entities |-> "array", relationships |-> "array"]

\* extract_metadata: schemas of the document types, by their properties
MetadataSchemas == [{"summary", "topics"} -> PropTypes]

\* JSON objects a provider may answer with
Objects ==
    {[summary |-> "text"],
     [entities |-> "[e]", relationships |-> "[]"],
     NoDict}

\* what one request to the provider can give: it fails (outage, HTTP error,
\* timeout), the text is not JSON, the text is JSON but no object, or an object;
\* Anthropic answers with or without a tool_use block
Responses(provider) ==
    IF provider = "ollama"
    THEN {[kind |-> k, body |-> NoDict] : k \in {"outage", "invalid_json", "non_object"}}
         \cup {[kind |-> "object", body |-> o] : o \in Objects}
    ELSE IF provider = "openai"
    THEN {[kind |-> k, body |-> NoDict] : k \in {"outage", "invalid_json"}}
         \cup {[kind |-> "object", body |-> o] : o \in Objects}
    ELSE {[kind |-> k, body |-> NoDict] : k \in {"outage", "no_tool_use"}}
         \cup {[kind |-> "object", body |-> o] : o \in Objects}

\* _empty_response_for_schema: [] for an array, "" for a string, {} for an
\* object, no key for anything else
EmptyValue(type) ==
    IF type = "array" THEN "[]" ELSE IF type = "string" THEN "''" ELSE "{}"

EmptyResponseForSchema_Bare(schema) == NoDict

EmptyResponseForSchema(schema) ==
    [k \in {q \in DOMAIN schema : schema[q] \in {"array", "string", "object"}} |->
        EmptyValue(schema[k])]

NoResult == [kind |-> "none", value |-> NoDict]

NoTier3 == [ok |-> FALSE, summary |-> "none", entities |-> "none", relationships |-> "none"]

\* no adapter call is being followed
AdapterIdle ==
    /\ aprovider = "none"
    /\ afn = "none"
    /\ aschema = NoDict
    /\ apc = "idle"
    /\ arequests = 0
    /\ alog = <<>>
    /\ aresult = NoResult
    /\ atier3 = NoTier3

\* run_document_level_extraction calls the configured adapter
InitAdapter ==
    /\ aprovider \in Providers
    /\ \E fn \in {"extract_metadata", "extract_entities"} :
        /\ afn = fn
        /\ IF fn = "extract_entities"
           THEN aschema = EntitySchema
           ELSE aschema \in MetadataSchemas
    /\ apc = "request"
    /\ arequests = 0
    /\ alog = <<>>
    /\ aresult = NoResult
    /\ atier3 = NoTier3

\* the other parts stand still while the adapter is followed
AdapterStep ==
    /\ UNCHANGED <<aprovider, afn, aschema>>
    /\ UNCHANGED <<dbvars, wvars, pvars, gvars, bvars, svars, nvars, hvars, cvars, kvars, rvars, xvars, lvars, ovars>>

\* _generate_structured: `if isinstance(parsed, dict): return parsed`
IsObject_AnyJson(resp) == resp.kind \in {"object", "non_object"}

IsObject(resp) == resp.kind = "object"

\* the request was made and answered
Requested(resp) ==
    /\ arequests' = arequests + 1
    /\ alog' = Append(alog, resp)

\* the call returns value
Returns(kind, value) ==
    /\ aresult' = [kind |-> kind, value |-> value]
    /\ apc' = "returned"

\* OllamaAdapter._generate_structured: one pass of `for attempt in
\* range(max_retries)`; a dict is returned, anything else goes to the next pass,
\* and the last pass returns the empty response
GenerateStructured ==
    /\ aprovider = "ollama"
    /\ apc = "request"
    /\ arequests < max_retries
    /\ \E resp \in Responses("ollama") :
        /\ Requested(resp)
        /\ IF IsObject(resp)
           THEN Returns(resp.kind, resp.body)
           ELSE IF arequests = max_retries - 1
                THEN Returns("empty", EmptyResponseForSchema(aschema))
                ELSE UNCHANGED <<aresult, apc>>
    /\ UNCHANGED atier3
    /\ AdapterStep

\* OpenAIAdapter._extract_structured: one request in JSON mode; json.loads of
\* the content, any exception gives the empty response
ExtractStructured ==
    /\ aprovider = "openai"
    /\ apc = "request"
    /\ \E resp \in Responses("openai") :
        /\ Requested(resp)
        /\ IF resp.kind = "object"
           THEN Returns("object", resp.body)
           ELSE Returns("empty", EmptyResponseForSchema(aschema))
    /\ UNCHANGED atier3
    /\ AdapterStep

\* AnthropicAdapter._extract_with_tools: one request; the input of the first
\* tool_use block, the empty response when there is none or on any exception
ExtractWithTools ==
    /\ aprovider = "anthropic"
    /\ apc = "request"
    /\ \E resp \in Responses("anthropic") :
        /\ Requested(resp)
        /\ IF resp.kind = "object"
           THEN Returns("object", resp.body)
           ELSE Returns("empty", EmptyResponseForSchema(aschema))
    /\ UNCHANGED atier3
    /\ AdapterStep

\* dict.get(key, default)
Get(d, key, default) == IF key \in DOMAIN d THEN d[key] ELSE default

\* run_document_level_extraction goes on with the result: the payload update
\* and write_to_neo4j read it with .get and defaults
TakeResult ==
    /\ apc = "returned"
    /\ atier3' = [ok |-> aresult.kind \in {"object", "empty"},
                  summary |-> Get(aresult.value, "summary", "''"),
                  entities |-> Get(aresult.value, "entities", "[]"),
                  relationships |-> Get(aresult.value, "relationships", "[]")]
    /\ apc' = "done"
    /\ UNCHANGED <<arequests, alog, aresult>>
    /\ AdapterStep

NextAdapter ==
    \/ GenerateStructured
    \/ ExtractStructured
    \/ ExtractWithTools
    \/ TakeResult


---------------------------------------------------------------------------
(* pipeline.py: aggregate_chunks; db.py: get_chunks_text *)

\* chunk texts; "" is an empty one
ChunkTexts == {"", "a", "b"}

\* what the store can return for a document: a chunk index (also one outside
\* 0..total_chunks-1) and a text
Points == [idx : -1..MaxChunks, text : ChunkTexts]

\* sequences of points with distinct indices, in any order
PointSeqs ==
    {ps \in UNION {[1..k -> Points] : k \in 0..MaxPoints} :
        \A i, j \in 1..Len(ps) : i # j => ps[i].idx # ps[j].idx}

\* "\n\n".join(texts), as the sequence of its pieces
RECURSIVE Join(_)
Join(texts) ==
    IF texts = <<>> THEN <<>>
    ELSE IF Len(texts) = 1 THEN texts
    ELSE <<Head(texts), "\n\n">> \o Join(Tail(texts))

\* aggregate_chunks: id_to_text, from the points with a text (the id of chunk i
\* is f"{base_id}:{i}")
RECURSIVE IdToText(_)
IdToText(points) ==
    IF points = <<>> THEN [i \in {} |-> ""]
    ELSE LET rest == IdToText(SubSeq(points, 1, Len(points) - 1))
             last == points[Len(points)]
         IN  IF last.text # ""
             THEN [i \in DOMAIN rest \cup {last.idx} |->
                      IF i = last.idx THEN last.text ELSE rest[i]]
             ELSE rest

\* aggregate_chunks: the texts of the points in the order they were retrieved
RECURSIVE TextsInOrder_AsRetrieved(_, _, _)
TextsInOrder_AsRetrieved(points, i, n) ==
    IF i >= Len(points) THEN <<>>
    ELSE (IF points[i + 1].text # "" /\ points[i + 1].idx \in 0..(n - 1)
          THEN <<points[i + 1].text>> ELSE <<>>)
         \o TextsInOrder_AsRetrieved(points, i + 1, n)

\* aggregate_chunks: `for i in range(total_chunks)`, the text of chunk i appended
\* when there is one; from index i on
RECURSIVE TextsInOrder(_, _, _)
TextsInOrder(points, i, n) ==
    IF i >= n THEN <<>>
    ELSE (IF i \in DOMAIN IdToText(points) THEN <<IdToText(points)[i]>> ELSE <<>>)
         \o TextsInOrder(points, i + 1, n)

\* ORDER BY chunk_index
RECURSIVE SortedByIndex(_)
SortedByIndex(chunkRows) ==
    IF chunkRows = <<>> THEN <<>>
    ELSE LET m == CHOOSE i \in 1..Len(chunkRows) :
                     \A j \in 1..Len(chunkRows) : chunkRows[i].idx <= chunkRows[j].idx
         IN  <<chunkRows[m]>> \o SortedByIndex(SubSeq(chunkRows, 1, m - 1)
                                                \o SubSeq(chunkRows, m + 1, Len(chunkRows)))

\* get_chunks_text: texts = [""] * total_chunks, then texts[idx] = row["text"]
\* for each row with 0 <= idx < total_chunks
RECURSIVE ChunksText(_, _)
ChunksText(chunkRows, n) ==
    IF chunkRows = <<>> THEN [i \in 1..n |-> ""]
    ELSE LET texts == ChunksText(SubSeq(chunkRows, 1, Len(chunkRows) - 1), n)
             row == chunkRows[Len(chunkRows)]
         IN  IF 0 <= row.idx /\ row.idx < n
             THEN [texts EXCEPT ![row.idx + 1] = row.text]
             ELSE texts

\* no aggregation is being followed
ChunksIdle ==
    /\ ctotal = 0
    /\ cpoints = <<>>
    /\ cpc = "idle"
    /\ cfull = <<>>
    /\ ctexts = <<>>

\* a document of total_chunks chunks, some of them in the store
InitChunks ==
    /\ ctotal \in 1..MaxChunks
    /\ cpoints \in PointSeqs
    /\ cpc = "call"
    /\ cfull = <<>>
    /\ ctexts = <<>>

\* the other parts stand still
ChunksStep ==
    /\ UNCHANGED <<ctotal, cpoints>>
    /\ UNCHANGED <<dbvars, wvars, pvars, gvars, bvars, svars, nvars, hvars, avars, kvars, rvars, xvars, lvars, ovars>>

\* aggregate_chunks(base_id, collection, total_chunks) with the points retrieved
AggregateTexts ==
    /\ cpc = "call"
    /\ cfull' = Join(TextsInOrder(cpoints, 0, ctotal))
    /\ cpc' = "aggregated"
    /\ UNCHANGED ctexts
    /\ ChunksStep

\* get_chunks_text(document_id, total_chunks) on the rows of the document
GetChunksText ==
    /\ cpc = "aggregated"
    /\ ctexts' = ChunksText(SortedByIndex(cpoints), ctotal)
    /\ cpc' = "done"
    /\ UNCHANGED cfull
    /\ ChunksStep

NextChunks ==
    \/ AggregateTexts
    \/ GetChunksText


---------------------------------------------------------------------------
(* api_client.py: claim_task *)

\* the payload of a task as the control API sends it; a legacy payload carries
\* its own text and attempt
Payloads ==
    [baseId : {"doc"}, chunkIndex : 0..(MaxChunks - 1), totalChunks : {MaxChunks}]
    \cup [baseId : {"doc"}, chunkIndex : 0..(MaxChunks - 1), totalChunks : {MaxChunks},
          text : {"old"}, attempt : {MAX_RETRIES}]

\* the "task" of a claim response: the key is absent, null, an empty object, or
\* a task
NoPayload == [baseId |-> "none"]

ClaimTasks ==
    {[is |-> k, id |-> "none", attempt |-> 0, payload |-> NoPayload] :
        k \in {"absent", "null", "empty"}}
    \cup [is : {"task"}, id : {"task-1"}, attempt : 1..MAX_RETRIES, payload : Payloads]

\* responses of POST /internal/tasks/claim: an error status, or a JSON body
ClaimResponses == [status : {"ok", "error"}, task : ClaimTasks, chunks : PointSeqs]

NoReturn == [kind |-> "none", task |-> NoPayload]

\* no claim is being followed
ClaimIdle ==
    /\ kdata = [status |-> "none", task |-> CHOOSE t \in ClaimTasks : t.is = "absent",
                chunks |-> <<>>]
    /\ kpc = "idle"
    /\ krequest = [workerId |-> "none", leaseDuration |-> 0]
    /\ kret = NoReturn

\* claim_task(worker_id) is called; the control API will answer with kdata
InitClaim ==
    /\ kdata \in ClaimResponses
    /\ kpc = "call"
    /\ krequest = [workerId |-> "none", leaseDuration |-> 0]
    /\ kret = NoReturn

\* claim_task: the loop that finds the chunk's text: the text of the first
\* chunk with that chunkIndex, "" when there is none
ChunkText_First(chunks, chunk_index) ==
    IF chunks = <<>> THEN "" ELSE chunks[1].text

ChunkText(chunks, chunk_index) ==
    IF \E i \in 1..Len(chunks) : chunks[i].idx = chunk_index
    THEN chunks[CHOOSE i \in 1..Len(chunks) :
                    /\ chunks[i].idx = chunk_index
                    /\ \A j \in 1..(i - 1) : chunks[j].idx # chunk_index].text
    ELSE ""

\* claim_task: {**payload, "taskId": ..., "attempt": ..., "text": ...}
BuildTask(task_data, chunks) ==
    LET payload == task_data.payload IN
    [k \in DOMAIN payload \cup {"taskId", "attempt", "text"} |->
        IF k = "taskId" THEN task_data.id
        ELSE IF k = "attempt" THEN task_data.attempt
        ELSE IF k = "text" THEN ChunkText(chunks, payload.chunkIndex)
        ELSE payload[k]]

\* claim_task: the post, raise_for_status, and what is made of the body
ClaimTask ==
    /\ kpc = "call"
    /\ krequest' = [workerId |-> "worker-1", leaseDuration |-> leaseDuration]
    /\ kret' = IF kdata.status = "error"
               THEN [kind |-> "raised", task |-> NoPayload]
               ELSE IF kdata.task.is # "task"
               THEN [kind |-> "None", task |-> NoPayload]
               ELSE [kind |-> "task", task |-> BuildTask(kdata.task, kdata.chunks)]
    /\ kpc' = "done"
    /\ UNCHANGED kdata
    /\ UNCHANGED <<dbvars, wvars, pvars, gvars, bvars, svars, nvars, hvars, avars, cvars, rvars, xvars, lvars, ovars>>

NextClaim == ClaimTask

---------------------------------------------------------------------------
(* api_client.py: submit_result *)

\* the optional arguments of submit_result, in the order of its tests
OptionalArgs == {"tier2", "tier3", "entities", "relationships", "summary"}

\* an argument is None, an empty value ({}, [], ''), or a value with content
ArgValues == {"None", "empty", "full"}

NoBody == [chunkId |-> "none"]

\* no result is being submitted
SubmitIdle ==
    /\ rargs = [a \in OptionalArgs |-> "None"]
    /\ rstatus = "none"
    /\ rpc = "idle"
    /\ rposted = NoBody
    /\ rret = "none"

\* submit_result(task_id, chunk_id, collection, ...) is called
InitSubmit ==
    /\ rargs \in [OptionalArgs -> ArgValues]
    /\ rstatus \in {"ok", "error"}
    /\ rpc = "call"
    /\ rposted = NoBody
    /\ rret = "none"

\* submit_result: "if tier2 is not None:" and its four siblings
Sent_IfTruthy(v) == v \notin {"None", "empty"}

Sent(v) == v # "None"

\* submit_result: the payload dict that is posted
ResultBody(args) ==
    [k \in {"chunkId", "collection"} \cup {a \in OptionalArgs : Sent(args[a])} |->
        IF k = "chunkId" THEN "doc:0"
        ELSE IF k = "collection" THEN "default"
        ELSE args[k]]

\* submit_result: build the body, post it, raise_for_status
SubmitResult ==
    /\ rpc = "call"
    /\ rposted' = ResultBody(rargs)
    /\ rret' = IF rstatus = "error" THEN "raised" ELSE "returned"
    /\ rpc' = "done"
    /\ UNCHANGED <<rargs, rstatus>>
    /\ UNCHANGED <<dbvars, wvars, pvars, gvars, bvars, svars, nvars, hvars, avars, cvars, kvars, xvars, lvars, ovars>>

NextSubmit == SubmitResult

---------------------------------------------------------------------------
(* schemas/__init__.py: get_schema_for_doctype *)

\* the eight tags of the router
KnownDocTypes == {"code", "slack", "email", "meeting", "image", "pdf", "article", "text"}

\* strings that are no tag: unknown, empty, other case, padded
OtherDocTypes == {"unknown", "", "Code", "pdf "}

DocTypes == KnownDocTypes \cup OtherDocTypes

\* no lookup is being followed
RouterIdle ==
    /\ doctypes = <<>>
    /\ routed = <<>>

InitRouter ==
    /\ doctypes \in [1..NumLookups -> DocTypes]
    /\ routed = <<>>

\* get_schema_for_doctype: the else branch
Fallback_Raises(doc_type) == [ends |-> "raised", schema |-> "none", prompt |-> "none"]

Fallback(doc_type) ==
    [ends |-> "returned", schema |-> "TextMetadata", prompt |-> "text.PROMPT"]

\* get_schema_for_doctype: the chain of comparisons, each branch returning the
\* class and the PROMPT of its module
get_schema_for_doctype(doc_type) ==
    IF doc_type = "code"
    THEN [ends |-> "returned", schema |-> "CodeMetadata", prompt |-> "code.PROMPT"]
    ELSE IF doc_type = "slack"
    THEN [ends |-> "returned", schema |-> "SlackMetadata", prompt |-> "slack.PROMPT"]
    ELSE IF doc_type = "email"
    THEN [ends |-> "returned", schema |-> "EmailMetadata", prompt |-> "email.PROMPT"]
    ELSE IF doc_type = "meeting"
    THEN [ends |-> "returned", schema |-> "MeetingMetadata", prompt |-> "meeting.PROMPT"]
    ELSE IF doc_type = "image"
    THEN [ends |-> "returned", schema |-> "ImageMetadata", prompt |-> "image.PROMPT"]
    ELSE IF doc_type = "pdf"
    THEN [ends |-> "returned", schema |-> "PDFMetadata", prompt |-> "pdf.PROMPT"]
    ELSE IF doc_type = "article"
    THEN [ends |-> "returned", schema |-> "ArticleMetadata", prompt |-> "article.PROMPT"]
    ELSE IF doc_type = "text"
    THEN [ends |-> "returned", schema |-> "TextMetadata", prompt |-> "text.PROMPT"]
    ELSE Fallback(doc_type)

\* the next document type is looked up
Lookup ==
    /\ Len(routed) < Len(doctypes)
    /\ routed' = Append(routed, get_schema_for_doctype(doctypes[Len(routed) + 1]))
    /\ UNCHANGED doctypes
    /\ UNCHANGED <<dbvars, wvars, pvars, gvars, bvars, svars, nvars, hvars, avars, cvars, kvars, rvars, lvars, ovars>>

NextRouter == Lookup

---------------------------------------------------------------------------
(* db.py: redelivery to workers that crash or hang past the lease *)

CrashIdle ==
    /\ claimed = [t \in Tasks |-> 0]
    /\ everDone = [t \in Tasks |-> FALSE]

\* one task is waiting in the queue, the others are done
InitCrash ==
    \E t \in Tasks :
        /\ now = 0
        /\ rows = [u \in Tasks |-> IF u = t THEN NewRow(u) ELSE CompletedRow(NewRow(u))]
        /\ lockedBy = [u \in Tasks |-> NULL]
        /\ sel = [w \in Workers |-> NULL]
        /\ held = [w \in Workers |-> NoTask]
        /\ recovered = NULL
        /\ claims = 0
        /\ claimed = [u \in Tasks |-> 0]
        /\ everDone = [u \in Tasks |-> u # t]

\* the row has reached a final status
Final(r) == r.status \in {"completed", "dead"}

\* dequeue_task, both halves at once, by a worker that holds nothing
Redeliver(w) ==
    /\ held[w] = NoTask
    /\ NextRow # NULL
    /\ claimed[NextRow] < MaxClaims
    /\ LET t == NextRow IN
        /\ rows' = [rows EXCEPT ![t] =
                       [@ EXCEPT !.status = "processing",
                                 !.lease_expires_at = now + LeaseSeconds,
                                 !.leased_by = w]]
        /\ held' = [held EXCEPT ![w] = [taskId |-> t, attempt |-> rows[t].attempt]]
        /\ claimed' = [claimed EXCEPT ![t] = @ + 1]
    /\ UNCHANGED <<now, lockedBy, sel, recovered, claims, everDone>>
    /\ UNCHANGED <<wvars, pvars, gvars, bvars, svars, nvars, hvars, avars, cvars, kvars, rvars, xvars, ovars>>

\* complete_task or fail_task(task_id, error_msg, attempt, MAX_RETRIES) by a
\* worker that holds the task, in time or late
Settle(w) ==
    /\ held[w] # NoTask
    /\ LET t == held[w].taskId IN
        \E r \in {CompletedRow(rows[t]), FailedRow(rows[t], held[w].attempt, MAX_RETRIES)} :
            /\ rows' = [rows EXCEPT ![t] = r]
            /\ everDone' = [everDone EXCEPT ![t] = @ \/ Final(r)]
    /\ held' = [held EXCEPT ![w] = NoTask]
    /\ UNCHANGED <<now, lockedBy, sel, recovered, claims, claimed>>
    /\ UNCHANGED <<wvars, pvars, gvars, bvars, svars, nvars, hvars, avars, cvars, kvars, rvars, xvars, ovars>>

\* the worker process dies with a task in hand and is started again: it
\* reports nothing, the row stays as it is
Crash(w) ==
    /\ held[w] # NoTask
    /\ held' = [held EXCEPT ![w] = NoTask]
    /\ UNCHANGED <<now, rows, lockedBy, sel, recovered, claims, lvars>>
    /\ UNCHANGED <<wvars, pvars, gvars, bvars, svars, nvars, hvars, avars, cvars, kvars, rvars, xvars, ovars>>

\* recover_stale_leases, when a lease has run out
Recover ==
    /\ \E t \in Tasks : Stale(rows[t], now)
    /\ rows' = [t \in Tasks |->
                  IF Stale(rows[t], now)
                  THEN [rows[t] EXCEPT !.status = "pending", !.lease_expires_at = NULL,
                                       !.leased_by = NULL, !.run_after = now]
                  ELSE rows[t]]
    /\ recovered' = Cardinality({t \in Tasks : Stale(rows[t], now)})
    /\ UNCHANGED <<now, lockedBy, sel, held, claims, lvars>>
    /\ UNCHANGED <<wvars, pvars, gvars, bvars, svars, nvars, hvars, avars, cvars, kvars, rvars, xvars, ovars>>

\* time passes until a backoff is over or a lease has run out
Wait ==
    /\ \E d \in UNION {{rows[t].run_after, rows[t].lease_expires_at + 1} : t \in Tasks} :
        /\ d > now
        /\ now' = d
    /\ UNCHANGED <<rows, lockedBy, sel, held, recovered, claims, lvars>>
    /\ UNCHANGED <<wvars, pvars, gvars, bvars, svars, nvars, hvars, avars, cvars, kvars, rvars, xvars, ovars>>

NextCrash ==
    \/ \E w \in Workers : Redeliver(w)
    \/ \E w \in Workers : Settle(w)
    \/ \E w \in Workers : Crash(w)
    \/ Recover
    \/ Wait

---------------------------------------------------------------------------
(* db.py: get_pool *)

\* the coroutines that call get_pool
Callers == 1..NumCallers

PoolIdle ==
    /\ pool = 0
    /\ pools = 0
    /\ opc = [c \in Callers |-> "idle"]
    /\ ogot = [c \in Callers |-> 0]

\* no pool exists; some of the coroutines are about to call get_pool
InitPool ==
    /\ pool = 0
    /\ pools = 0
    /\ opc \in [Callers -> {"idle", "call"}]
    /\ ogot = [c \in Callers |-> 0]

\* a step of caller c; the other parts stand still
PoolStep(c, from, to) ==
    /\ opc[c] = from
    /\ opc' = [opc EXCEPT ![c] = to]
    /\ UNCHANGED <<dbvars, wvars, pvars, gvars, bvars, svars, nvars, hvars, avars, cvars, kvars, rvars, xvars, lvars>>

\* a coroutine that was doing something else calls get_pool
CallGetPool(c) ==
    /\ PoolStep(c, "idle", "call")
    /\ UNCHANGED <<pool, pools, ogot>>

\* get_pool: `if _pool is None`; with a pool it returns at once, without one it
\* starts `await asyncpg.create_pool(...)` and is suspended
Creating(c) ==
    /\ PoolStep(c, "call", "creating")
    /\ UNCHANGED <<pool, pools, ogot>>

GetPool(c) ==
    IF pool = 0
    THEN Creating(c)
    ELSE /\ PoolStep(c, "call", "done")
         /\ ogot' = [ogot EXCEPT ![c] = pool]
         /\ UNCHANGED <<pool, pools>>

\* get_pool: create_pool has returned; `_pool = ...` and `return _pool`
PoolCreated(c) ==
    /\ PoolStep(c, "creating", "done")
    /\ pools' = pools + 1
    /\ pool' = pools + 1
    /\ ogot' = [ogot EXCEPT ![c] = pools + 1]

NextPool ==
    \/ \E c \in Callers : CallGetPool(c)
    \/ \E c \in Callers : GetPool(c)
    \/ \E c \in Callers : PoolCreated(c)

\* nothing of the later parts is running
ExtrasIdle ==
    SchedulerIdle /\ NlpIdle /\ InitClient /\ AdapterIdle /\ ChunksIdle /\ ClaimIdle /\ SubmitIdle /\ RouterIdle /\ CrashIdle /\ PoolIdle

---------------------------------------------------------------------------
(* Specifications *)

\* the task queue of db.py alone
Init == InitDB /\ InitWorkerWith(0) /\ PipelineIdle /\ PersistIdle /\ BackoffIdle /\ ExtrasIdle

Spec == Init /\ [][NextDB]_vars

\* the consumer of main.py alone
InitW == InitDB /\ InitWorker /\ PipelineIdle /\ PersistIdle /\ BackoffIdle /\ ExtrasIdle

SpecWorker == InitW /\ [][NextWorker]_vars

\* the consumers draining the queue without being cancelled; the event loop runs
\* every coroutine that is ready, time passes, and a run of process_task ends
Handled(c) ==
    ProcessOk(c) \/ ProcessRequeue(c) \/ ProcessDeadLetter(c) \/ ProcessPushRaises(c)

NextDrain ==
    \/ \E c \in Consumers : Brpop(c)
    \/ \E c \in Consumers : BrpopRaises(c)
    \/ \E c \in Consumers : DelayDone(c)
    \/ \E c \in Consumers : ProcessOk(c)
    \/ \E c \in Consumers : ProcessRequeue(c)
    \/ \E c \in Consumers : ProcessDeadLetter(c)
    \/ \E c \in Consumers : ProcessPushRaises(c)
    \/ \E c \in Consumers : PauseDone(c)
    \/ ClockTick

Fairness ==
    /\ \A c \in Consumers : WF_vars(Brpop(c))
    /\ \A c \in Consumers : WF_vars(DelayDone(c))
    /\ \A c \in Consumers : WF_vars(Handled(c))
    /\ \A c \in Consumers : WF_vars(PauseDone(c))
    /\ WF_vars(ClockTick)

SpecDrain == InitW /\ [][NextDrain]_vars /\ Fairness

\* either deployment: the task queue of db.py (no Redis queue in use) or the
\* Redis consumer of main.py
InitBoth == InitDB /\ (\E n \in 0..MaxChunks : InitWorkerWith(n)) /\ PipelineIdle /\ PersistIdle /\ BackoffIdle /\ ExtrasIdle

NextBoth ==
    \/ \E w \in Workers : nChunks = 0 /\ DequeueSelect(w)
    \/ \E w \in Workers : nChunks = 0 /\ DequeueUpdate(w)
    \/ \E w \in Workers : nChunks = 0 /\ DequeueNone(w)
    \/ \E w \in Workers : nChunks = 0 /\ CompleteTask(w)
    \/ \E w \in Workers : nChunks = 0 /\ FailTask(w)
    \/ nChunks = 0 /\ RecoverStaleLeases
    \/ nChunks = 0 /\ Tick
    \/ \E c \in Consumers : nChunks > 0 /\ Brpop(c)
    \/ \E c \in Consumers : nChunks > 0 /\ BrpopRaises(c)
    \/ \E c \in Consumers : nChunks > 0 /\ DelayDone(c)
    \/ \E c \in Consumers : nChunks > 0 /\ ProcessOk(c)
    \/ \E c \in Consumers : nChunks > 0 /\ ProcessRequeue(c)
    \/ \E c \in Consumers : nChunks > 0 /\ ProcessDeadLetter(c)
    \/ \E c \in Consumers : nChunks > 0 /\ ProcessPushRaises(c)
    \/ \E c \in Consumers : nChunks > 0 /\ PauseDone(c)
    \/ nChunks > 0 /\ Cancel
    \/ nChunks > 0 /\ ClockTick

SpecBoth == InitBoth /\ [][NextBoth]_vars

\* one delivery through process_task and its handler, call by call
InitP == InitDB /\ InitWorkerWith(0) /\ InitPipeline /\ PersistIdle /\ BackoffIdle /\ ExtrasIdle

SpecPipeline == InitP /\ [][NextPipeline]_vars

\* a tier-3 result persisted once or several times
InitG == InitDB /\ InitWorkerWith(0) /\ PipelineIdle /\ InitPersist /\ BackoffIdle /\ ExtrasIdle

SpecPersist == InitG /\ [][NextPersist]_vars

\* a task that fails attempt after attempt
InitB == InitBackoff /\ InitWorkerWith(0) /\ PipelineIdle /\ PersistIdle /\ ExtrasIdle

SpecBackoff == InitB /\ [][NextBackoff]_vars

\* the stores, the consumer, the pipeline at rest
CoreIdle == InitDB /\ InitWorkerWith(0) /\ PipelineIdle /\ PersistIdle /\ BackoffIdle

\* one run of worker_loop, from its call to its end
InitS == CoreIdle /\ InitScheduler /\ NlpIdle /\ InitClient /\ AdapterIdle /\ ChunksIdle /\ ClaimIdle /\ SubmitIdle /\ RouterIdle /\ CrashIdle /\ PoolIdle

SpecScheduler == InitS /\ [][NextScheduler]_vars

\* concurrent tier-2 extractions in one process
InitN == CoreIdle /\ SchedulerIdle /\ InitNlp /\ InitClient /\ AdapterIdle /\ ChunksIdle /\ ClaimIdle /\ SubmitIdle /\ RouterIdle /\ CrashIdle /\ PoolIdle

SpecNlp == InitN /\ [][NextNlp]_vars

\* consumers that get the HTTP client, and a caller that closes it
InitH == CoreIdle /\ SchedulerIdle /\ NlpIdle /\ InitClient /\ AdapterIdle /\ ChunksIdle /\ ClaimIdle /\ SubmitIdle /\ RouterIdle /\ CrashIdle /\ PoolIdle

SpecClient == InitH /\ [][NextClient]_vars

\* one adapter call, with whatever the provider answers
InitA == CoreIdle /\ SchedulerIdle /\ NlpIdle /\ InitClient /\ InitAdapter /\ ChunksIdle /\ ClaimIdle /\ SubmitIdle /\ RouterIdle /\ CrashIdle /\ PoolIdle

SpecAdapter == InitA /\ [][NextAdapter]_vars

\* the same, when every request is answered or times out and the pipeline goes on
SpecAdapterLive == SpecAdapter /\ WF_vars(NextAdapter)

\* the chunks of one document are aggregated
InitC == CoreIdle /\ SchedulerIdle /\ NlpIdle /\ InitClient /\ AdapterIdle /\ InitChunks /\ ClaimIdle /\ SubmitIdle /\ RouterIdle /\ CrashIdle /\ PoolIdle

SpecChunks == InitC /\ [][NextChunks]_vars

\* one claim for every response of the control API
InitK ==
    CoreIdle /\ SchedulerIdle /\ NlpIdle /\ InitClient /\ AdapterIdle /\ ChunksIdle /\ InitClaim /\ SubmitIdle /\ RouterIdle /\ CrashIdle /\ PoolIdle

SpecClaim == InitK /\ [][NextClaim]_vars


\* one submit_result for every combination of arguments
InitR ==
    CoreIdle /\ SchedulerIdle /\ NlpIdle /\ InitClient /\ AdapterIdle /\ ChunksIdle /\ ClaimIdle /\ InitSubmit /\ RouterIdle /\ CrashIdle /\ PoolIdle

SpecSubmit == InitR /\ [][NextSubmit]_vars


\* a row of lookups for every choice of document types
InitX ==
    CoreIdle /\ SchedulerIdle /\ NlpIdle /\ InitClient /\ AdapterIdle /\ ChunksIdle /\ ClaimIdle /\ SubmitIdle /\ InitRouter /\ CrashIdle /\ PoolIdle

SpecRouter == InitX /\ [][NextRouter]_vars


\* the task queue with workers that crash or hang
InitL ==
    InitCrash /\ InitWorkerWith(0) /\ PipelineIdle /\ PersistIdle /\ BackoffIdle /\ SchedulerIdle /\ NlpIdle /\ InitClient /\ AdapterIdle /\ ChunksIdle /\ ClaimIdle /\ SubmitIdle /\ RouterIdle /\ PoolIdle

SpecCrash == InitL /\ [][NextCrash]_vars


\* coroutines asking for the connection pool
InitO ==
    CoreIdle /\ SchedulerIdle /\ NlpIdle /\ InitClient /\ AdapterIdle /\ ChunksIdle /\ ClaimIdle /\ SubmitIdle /\ RouterIdle /\ CrashIdle /\ InitPool

SpecPool == InitO /\ [][NextPool]_vars

---------------------------------------------------------------------------
(* Properties of the task queue (db.py) *)

\* a row holds a lease that has not expired
LeaseLive(r) == r.status = "processing" /\ r.lease_expires_at # NULL /\ r.lease_expires_at >= now

\* dequeue_task returns task t to worker w in this step
Returned(w, t) == held[w] = NoTask /\ held'[w].taskId = t

\* C1: lease exclusivity. Under every interleaving of dequeue_task statements of
\* different workers (with the other queue operations running too): two
\* statements in flight never select the same row; a dequeue never returns a row
\* that is 'processing' (with an unexpired lease or otherwise), only a pending one,
\* and makes the caller its lease owner; and while a row stays 'processing' its
\* leased_by and lease_expires_at do not change, so the lease has one owner from
\* the claim until the row leaves 'processing'.
C1_LeaseExclusive ==
    /\ [](\A w1, w2 \in Workers : (w1 # w2 /\ sel[w1] # NULL) => sel[w1] # sel[w2])
    /\ [](\A t \in Tasks : rows[t].status = "processing" => rows[t].leased_by \in Workers)
    /\ [][\A w \in Workers, t \in Tasks :
            Returned(w, t) =>
                /\ ~LeaseLive(rows[t])
                /\ rows[t].status = "pending"
                /\ rows'[t].status = "processing"
                /\ rows'[t].leased_by = w
                /\ \A w2 \in Workers \ {w} : sel'[w2] # t]_vars
    /\ [][\A t \in Tasks :
            (rows[t].status = "processing" /\ rows'[t].status = "processing") =>
                /\ rows'[t].leased_by = rows[t].leased_by
                /\ rows'[t].lease_expires_at = rows[t].lease_expires_at]_vars

\* C1 witness: two workers hold two different tasks, each under its own live lease
C1_Witness ==
    \E w1, w2 \in Workers :
        /\ w1 # w2
        /\ held[w1] # NoTask
        /\ held[w2] # NoTask
        /\ held[w1].taskId # held[w2].taskId
        /\ LeaseLive(rows[held[w1].taskId]) /\ rows[held[w1].taskId].leased_by = w1
        /\ LeaseLive(rows[held[w2].taskId]) /\ rows[held[w2].taskId].leased_by = w2

\* C3 (as claimed): under any sequence of dequeue_task, complete_task, fail_task
\* and recover_stale_leases calls, late calls included, a task's status changes
\* only along pending->processing, processing->completed, processing->pending,
\* processing->dead; completed and dead are never left.
C3_LifecycleOnly ==
    [][\A t \in Tasks :
          rows'[t].status # rows[t].status =>
              <<rows[t].status, rows'[t].status>> \in
                  {<<"pending", "processing">>, <<"processing", "completed">>,
                   <<"processing", "pending">>, <<"processing", "dead">>}]_vars

\* C5 (as claimed): the stored attempt of a task never decreases, also when a
\* failure is reported late by a worker that holds an older attempt number.
C5_AttemptMonotonic ==
    [][\A t \in Tasks : rows'[t].attempt >= rows[t].attempt]_vars

\* C6: a recover-stale call at time t resets exactly the rows that are
\* 'processing' with lease_expires_at < t (to pending, run_after = t, owner and
\* expiry cleared, attempt kept), changes no other row, returns their number, and
\* leaves no stale row behind, so that a call repeated at once recovers 0.
C6_RecoverExactlyStale ==
    [][RecoverStaleLeases =>
         LET S == {t \in Tasks : /\ rows[t].status = "processing"
                                 /\ rows[t].lease_expires_at # NULL
                                 /\ rows[t].lease_expires_at < now}
         IN  /\ \A t \in S :
                   rows'[t] = [status |-> "pending", attempt |-> rows[t].attempt,
                               run_after |-> now, lease_expires_at |-> NULL,
                               leased_by |-> NULL, created_at |-> rows[t].created_at]
             /\ \A t \in Tasks \ S : rows'[t] = rows[t]
             /\ recovered' = Cardinality(S)
             /\ {t \in Tasks : /\ rows'[t].status = "processing"
                               /\ rows'[t].lease_expires_at # NULL
                               /\ rows'[t].lease_expires_at < now'} = {}]_vars

\* C6 witness: one call recovered two stale tasks, both pending again from now on
C6_Witness ==
    /\ recovered = 2
    /\ Cardinality({t \in Tasks : rows[t].status = "pending" /\ rows[t].run_after = now
                                    /\ now > LeaseSeconds}) >= 2

---------------------------------------------------------------------------
(* Properties of the Redis consumer (main.py, pipeline.py) *)

\* how often call x occurs in the call sequence h
Count(h, x) == Cardinality({i \in DOMAIN h : h[i] = x})

\* the delivery's result was submitted and its success reported
SuccessReported(h) == Count(h, "enrichment_complete") > 0

\* the delivery's failure was reported: handed to the retry / dead-letter push
FailureReported(h) == Count(h, "rpush_pending") + Count(h, "lpush_dead") > 0

\* C2: for every delivery (chunk, attempt) the final result write (status
\* 'enriched') is made at most once, and never together with a 'failed' status or
\* a failure report; a delivery that was handled ended in exactly one report,
\* success or failure, never both and never two of a kind.
C2_SubmitOnce ==
    \A d \in DOMAIN hist :
        LET h == hist[d] IN
            /\ Count(h, "status_enriched") <= 1
            /\ ~(Count(h, "status_enriched") > 0 /\ Count(h, "status_failed") > 0)
            /\ ~(Count(h, "status_enriched") > 0 /\ FailureReported(h))
            /\ ~(SuccessReported(h) /\ FailureReported(h))
            /\ h # <<>> =>
                  Count(h, "enrichment_complete") + Count(h, "rpush_pending")
                      + Count(h, "lpush_dead") = 1

\* C2 witness: the last chunk failed at attempt 1 (failure reported) and succeeded
\* at attempt 2 (result submitted, success reported)
C2_Witness ==
    /\ nChunks > 0
    /\ FailureReported(hist[<<nChunks - 1, 1>>])
    /\ SuccessReported(hist[<<nChunks - 1, 2>>])
    /\ Count(hist[<<nChunks - 1, 2>>], "status_enriched") = 1

\* consumer c finishes handling its delivery in this step, and process_task raised
FailedStep(c) ==
    /\ pc[c] = "process"
    /\ hist'[Delivery(c)] # hist[Delivery(c)]
    /\ ~SuccessReported(hist'[Delivery(c)])

\* the push of the except branch raised
PushRaised(h) == Count(h, "push_raised") > 0

Settled(i) == i \in completed \/ \E k \in DOMAIN dlq : dlq[k].chunkIndex = i

\* C7 (as claimed): with the consumers draining a finite queue under fair
\* scheduling, every enqueued task eventually is completed or dead-lettered.
C7_AllSettled == <>[](\A i \in 0..(nChunks - 1) : Settled(i))

\* C8 (as claimed): a consumer never re-queues a task itself and takes no retry
\* or dead-letter decision: no step of a consumer adds a task to the pending
\* queue or to the dead-letter queue.
C8_NoInProcessRequeue ==
    [][Len(queue') <= Len(queue) /\ dlq' = dlq]_vars

\* a consumer that is in its loop
Running(c) == pc[c] \in {"brpop", "delay", "process", "pause"}

C10_Tier3Once == tier3Runs <= 1

---------------------------------------------------------------------------
(* Properties of one run of process_task (pipeline.py) *)

\* process_task has ended, by returning or by raising
Ended == ppc \in {"returned", "raised", "done"}

\* the calls made inside run_document_level_extraction
Tier3CallNames ==
    {"aggregate_chunks", "extract_metadata", "extract_entities", "payload_tier3",
     "write_to_neo4j"}

\* C11: document-level extraction is entered only for the chunk with
\* chunkIndex = totalChunks - 1, and every run of process_task for that chunk
\* has entered it by the time it ends; so it runs for the only chunk of a
\* single-chunk document.
C11_Tier3Trigger ==
    /\ (\E i \in DOMAIN plog : plog[i] \in Tier3CallNames)
          => ptask.chunkIndex = ptask.totalChunks - 1
    /\ (Ended /\ ptask.chunkIndex = ptask.totalChunks - 1)
          => Count(plog, "aggregate_chunks") = 1

\* C11 witness: the run for the only chunk of a single-chunk document returned
\* after document-level extraction went through to the graph write
C11_Witness ==
    /\ ppc = "returned"
    /\ ptask.totalChunks = 1
    /\ ptask.chunkIndex = 0
    /\ Count(plog, "write_to_neo4j") = 1

\* C12: a run of process_task for a chunk with chunkIndex < totalChunks - 1
\* makes exactly one payload write, with the key tier2 and for its own chunk:
\* when it has ended the chunk's payload holds tier2 (unless Qdrant refused the
\* write) and nothing of tier 3, no other chunk was written, and neither
\* extract_metadata nor extract_entities nor the graph write was called.
C12_EarlierChunkTier2Only ==
    (Ended /\ ptask.chunkIndex < ptask.totalChunks - 1) =>
        /\ Count(plog, "payload_tier2") = 1
        /\ Count(plog, "payload_tier3") = 0
        /\ Count(plog, "extract_metadata") = 0
        /\ Count(plog, "extract_entities") = 0
        /\ Count(plog, "write_to_neo4j") = 0
        /\ ppayload[ptask.chunkIndex] \subseteq {"tier2"}
        /\ (<<"payload_tier2", ptask.chunkIndex>> \notin pfailed
               => "tier2" \in ppayload[ptask.chunkIndex])
        /\ \A j \in Chunks(ptask.totalChunks) \ {ptask.chunkIndex} : ppayload[j] = {}

\* C12 witness: the run for the first chunk of a longer document returned with
\* tier2 in the chunk's payload
C12_Witness ==
    /\ ppc = "returned"
    /\ ptask.chunkIndex = 0
    /\ ptask.totalChunks > 1
    /\ ppayload[0] = {"tier2"}

\* the calls process_task itself made (without the handler's report)
TaskCalls == SelectSeq(plog, LAMBDA x : x \notin {"enrichment_complete", "rpush_pending",
                                                  "lpush_dead"})

\* every call named in A comes before every call named in B
Precede(h, A, B) ==
    \A i, j \in DOMAIN h : (h[i] \in A /\ h[j] \in B) => i < j

\* within a run: tier 2, then tier 3 (only on the last chunk), then the final
\* result write, which is the last call of a run that returns
OrderedCalls ==
    /\ Precede(TaskCalls, {"tier2", "payload_tier2"}, Tier3CallNames)
    /\ Precede(TaskCalls, {"tier2", "payload_tier2"} \cup Tier3CallNames, {"status_enriched"})
    /\ ppc \in {"returned", "done"} /\ poutcome = "ok" =>
          TaskCalls[Len(TaskCalls)] = "status_enriched"

\* C13 (as claimed): within a task the pipeline performs tier 2, then tier 3
\* (last chunk only), then the final result write as its last call; and if that
\* final write fails, the run does not end as a success: process_task raises and
\* the task is failed.
C13_SubmitLastAndFatal ==
    /\ OrderedCalls
    /\ (Ended /\ <<"status_enriched", ptask.chunkIndex>> \in pfailed) =>
          /\ poutcome # "ok"
          /\ Count(plog, "enrichment_complete") = 0

\* an adapter call of tier 3 raised in this run
Tier3Raised == poutcome \in {"metadata_raises", "entities_raises"}

\* C14: when extract_metadata or extract_entities raises on the last chunk, the
\* exception leaves process_task; the run writes status 'failed' once and never
\* writes 'enriched', so the chunk is not enriched and is failed whenever Qdrant
\* took the write; nothing of tier 3 is persisted; and the handler then reports
\* the delivery as failed (re-queue or dead-letter), never as complete.
C14_Tier3FailurePropagates ==
    Tier3Raised =>
        /\ ppc \in {"except", "raised", "done"}
        /\ ptask.chunkIndex = ptask.totalChunks - 1
        /\ Count(plog, "status_enriched") = 0
        /\ Count(plog, "payload_tier3") = 0 /\ Count(plog, "write_to_neo4j") = 0
        /\ Count(plog, "enrichment_complete") = 0
        /\ pstatus[ptask.chunkIndex] # "enriched"
        /\ Ended =>
              /\ Count(plog, "status_failed") = 1
              /\ (<<"status_failed", ptask.chunkIndex>> \notin pfailed
                     => pstatus[ptask.chunkIndex] = "failed")
        /\ ppc = "done" =>
              Count(plog, "rpush_pending") + Count(plog, "lpush_dead") = 1

\* C14 witness: extract_metadata raised on the last chunk, the chunk is marked
\* failed and the handler has re-queued the task
C14_Witness ==
    /\ ppc = "done"
    /\ poutcome = "metadata_raises"
    /\ pstatus[ptask.chunkIndex] = "failed"
    /\ Count(plog, "rpush_pending") = 1

\* run_tier2_extraction has returned in this run
Tier2Done == Count(plog, "tier2") > 0

\* C15: run_tier2_extraction never raises (the step after it is always the
\* tier-2 payload write) and returns entities and keywords as lists and language
\* as a string; a failed NLP subtask empties entities and keywords and leaves
\* the detected language, a failed language detection gives "unknown" and
\* leaves the entities and keywords of the NLP result.
C15_Tier2Total ==
    /\ [](Tier2Done =>
            /\ tier2.entities \in Seq({"ent"})
            /\ tier2.keywords \in Seq({"kw"})
            /\ tier2.language \in {"en", "unknown"}
            /\ IF nlp_result.raised
               THEN tier2.entities = <<>> /\ tier2.keywords = <<>>
               ELSE /\ tier2.entities = nlp_result.entities
                    /\ tier2.keywords = nlp_result.keywords
            /\ IF language_result = "Exception"
               THEN tier2.language = "unknown"
               ELSE tier2.language = language_result)
    /\ [][ppc = "tier2" => ppc' = "payload_tier2" /\ poutcome' = "running"]_vars

\* C15 witness: only language detection failed; the NLP entities and keywords
\* are kept and the language is "unknown"
C15_Witness ==
    /\ Tier2Done
    /\ language_result = "Exception"
    /\ ~nlp_result.raised
    /\ tier2 = [entities |-> <<"ent">>, keywords |-> <<"kw">>, language |-> "unknown"]

\* the tier-3 payload write failed for some chunk of the document
Tier3UpdateFailed == \E j \in Chunks(ptask.totalChunks) : <<"payload_tier3", j>> \in pfailed

\* C16 (as claimed): if persisting the tier-3 result fails for any chunk, the
\* document-level extraction raises: the run does not end as a success, exactly
\* one 'failed' status update is made, and the chunk is not marked enriched.
C16_Tier3UpdateFailureRaises ==
    (Ended /\ Tier3UpdateFailed) =>
        /\ poutcome # "ok"
        /\ Count(plog, "status_failed") = 1
        /\ Count(plog, "status_enriched") = 0

\* the chunks could not be looked up in the store
LookupFailed == <<"retrieve_raises", NULL>> \in pfailed \/ <<"no_points", NULL>> \in pfailed

\* C17 (as claimed): if the document's chunks cannot be looked up, processing
\* raises instead of going on with empty text: no adapter call is made on the
\* empty aggregate and the run ends as a failure.
C17_LookupFailureRaises ==
    LookupFailed =>
        /\ Count(plog, "extract_metadata") = 0
        /\ Count(plog, "extract_entities") = 0
        /\ Ended => poutcome # "ok" /\ Count(plog, "status_failed") = 1

\* C18: persisting the same tier-3 result twice leaves the stored document,
\* entity, mention and relationship state as persisting it once left it, in
\* Neo4j and in the Postgres mention rows.
C18_PersistIdempotent ==
    /\ gpasses >= 2 => GraphState = gsnap
    /\ \A name \in Names :
        dbcalls[name] >= 1 => dbment[name] = AddDocumentMention(NoMention)

\* the delays of the attempts 1..6, in seconds
Delays == <<2, 4, 8, 16, 32, 60>>

C20_RetryAfterHonoured ==
    [][\A c \in Consumers :
        /\ pc'[c] = "process" => clock' >= cur'[c].retryAfter
        /\ pc[c] = "brpop" /\ pc'[c] \in {"delay", "process"} =>
              /\ pc'[c] = "delay" <=> cur'[c].retryAfter > clock
              /\ pc'[c] = "delay" => wake'[c] = cur'[c].retryAfter]_vars

\* a consumer has slept until the hinted time of a retried task and is about to
\* process it
C20_Witness ==
    \E c \in Consumers :
        /\ pc[c] = "process"
        /\ cur[c].attempt > 1
        /\ cur[c].retryAfter > 0
        /\ clock = cur[c].retryAfter

\* C21: once started, the scheduler has launched exactly WORKER_CONCURRENCY
\* consumers and one watchdog, and at most that many tasks are in flight.
C21_LaunchesConsumersAndWatchdog ==
    spc \notin {"idle", "start"} =>
        /\ Cardinality(Created) = concurrency
        /\ watchdogs = 1
        /\ Cardinality(InFlight) <= concurrency

\* C22: the shared resources are closed only after every cancelled consumer has
\* ended, and whenever worker_loop has exited they are closed.
C22_ShutdownOrdering ==
    /\ redis = "closed" \/ driver = "closed" => Alive = {}
    /\ spc = "exited" => redis = "closed" /\ driver # "open"

\* C23: under concurrent first calls the model is loaded at most once, every
\* caller that gets the pipeline gets that one instance, and no instance is
\* handed out without a load.
C23_NlpSingleton ==
    /\ nloads <= 1
    /\ \A c \in Calls : ngot[c] # 0 => ngot[c] = 1 /\ nloads = 1
    /\ \A c, d \in Calls : ngot[c] # 0 /\ ngot[d] # 0 => ngot[c] = ngot[d]

\* two calls found no model at the first check; one loaded it and received it,
\* the other holds the lock afterwards and stands at the second check
C23_Witness ==
    \E c, d \in Calls :
        /\ c # d
        /\ ngot[c] = 1
        /\ npc[d] = "locked_check" /\ nlock = d
        /\ nlpInst = 1 /\ nloads = 1

\* C29: a call with an empty or whitespace-only text returns exactly
\* {entities: [], keywords: [], language: "unknown"} without getting or running
\* the NLP pipeline, and when every text is blank nothing is ever loaded.
C29_BlankTextDefaults ==
    /\ \A c \in Calls :
        (\A i \in 1..Len(ntext[c]) : ntext[c][i] \in Whitespace) =>
            /\ ngot[c] = 0 /\ ~nused[c]
            /\ npc[c] \in {"call", "done"}
            /\ npc[c] = "done" =>
                  nres[c] = [entities |-> <<>>, keywords |-> <<>>, language |-> "unknown"]
    /\ (\A c \in Calls : \A i \in 1..Len(ntext[c]) : ntext[c][i] \in Whitespace) =>
            nloads = 0 /\ nlpInst = 0 /\ nlock = 0

\* a whitespace-only text has been answered
C29_Witness ==
    \E c \in Calls :
        /\ ntext[c] # <<>>
        /\ \A i \in 1..Len(ntext[c]) : ntext[c][i] \in Whitespace
        /\ npc[c] = "done"
        /\ nres[c] = [entities |-> <<>>, keywords |-> <<>>, language |-> "unknown"]

\* C24: get_client creates the client when there is none and otherwise returns
\* the one there is, to every consumer; close_client closes that instance once
\* and clears it, and the next get_client returns a fresh instance.
C24_ClientSingleton ==
    [][/\ \A c \in Consumers :
            hgot'[c] # hgot[c] =>
                /\ hgot'[c] = client'
                /\ client # 0 => hgot'[c] = client /\ created' = created
                /\ client = 0 => hgot'[c] = created + 1 /\ closes[hgot'[c]] = 0
       /\ \A i \in Clients : closes'[i] <= 1
       /\ hpc = "aclose" /\ hpc' = "idle" => client' = 0 /\ closes[client] = 1]_vars

\* after a close, a consumer has received a fresh client while another still
\* has the closed one from before
C24_Witness ==
    \E c, d \in Consumers :
        /\ hgot[c] = 1 /\ closes[1] = 1
        /\ hgot[d] = 2 /\ client = 2 /\ closes[2] = 0

\* the first answer that is a JSON object, 0 when there is none
FirstObject(log) ==
    IF \E i \in 1..Len(log) : log[i].kind = "object"
    THEN CHOOSE i \in 1..Len(log) :
            /\ log[i].kind = "object"
            /\ \A j \in 1..(i - 1) : log[j].kind # "object"
    ELSE 0

\* C25: a call of the Ollama adapter makes at most 3 generation requests, returns
\* the first answer that parses as a JSON object and makes no request after it,
\* returns the empty object of the schema after a third failed attempt, and
\* always ends.
C25_OllamaBounded ==
    /\ [](aprovider = "ollama" =>
            /\ arequests <= 3
            /\ apc = "request" => arequests < 3 /\ FirstObject(alog) = 0
            /\ apc # "request" =>
                  IF FirstObject(alog) # 0
                  THEN /\ FirstObject(alog) = Len(alog)
                       /\ aresult = [kind |-> "object", value |-> alog[Len(alog)].body]
                  ELSE /\ arequests = 3
                       /\ aresult = [kind |-> "empty",
                                     value |-> EmptyResponseForSchema(aschema)])
    /\ (aprovider = "ollama" => <>(apc = "done"))

\* the third request was answered with an object after two failures
C25_Witness ==
    /\ aprovider = "ollama"
    /\ arequests = 3
    /\ alog[1].kind = "invalid_json" /\ alog[2].kind = "non_object"
    /\ alog[3].kind = "object"
    /\ apc = "done"

Present == {i \in 0..(ctotal - 1) :
               \E k \in 1..Len(cpoints) : cpoints[k].idx = i /\ cpoints[k].text # ""}

\* the stored text of chunk i, "" when the store has none
StoredText(i) ==
    IF \E k \in 1..Len(cpoints) : cpoints[k].idx = i
    THEN cpoints[CHOOSE k \in 1..Len(cpoints) : cpoints[k].idx = i].text
    ELSE ""

\* C27: the aggregated text is the non-empty texts of the chunks
\* 0..totalChunks-1 in ascending chunk index, joined by "\n\n", whatever the
\* order of retrieval; get_chunks_text gives a list of length totalChunks with
\* chunk i's text at position i, '' where it is missing, and ignores indices out
\* of range.
C27_AggregationOrder ==
    /\ cpc \in {"aggregated", "done"} =>
        /\ Len(cfull) = IF Present = {} THEN 0 ELSE 2 * Cardinality(Present) - 1
        /\ \A i \in Present :
              cfull[2 * Cardinality({j \in Present : j < i}) + 1] = StoredText(i)
        /\ \A k \in 1..Len(cfull) : k % 2 = 0 => cfull[k] = "\n\n"
    /\ cpc = "done" =>
        /\ Len(ctexts) = ctotal
        /\ \A i \in 0..(ctotal - 1) : ctexts[i + 1] = StoredText(i)

\* chunk 1 was retrieved before chunk 0 and the
\* texts came out in index order
C27_Witness ==
    /\ ctotal = 2
    /\ cpoints = <<[idx |-> 1, text |-> "b"], [idx |-> 0, text |-> "a"]>>
    /\ cfull = <<"a", "\n\n", "b">>
    /\ ctexts = <<"a", "b">>

\* the calls of one kind in a log, in order
CallsOf(log, call) == SelectSeq(log, LAMBDA x : x.call = call)

C30_ClaimTask ==
    kpc = "done" =>
        /\ krequest.leaseDuration = 300
        /\ kdata.status = "ok" =>
            /\ kret.kind = "None" <=> kdata.task.is \in {"absent", "null", "empty"}
            /\ kdata.task.is = "task" =>
                /\ kret.kind = "task"
                /\ \A k \in DOMAIN kdata.task.payload \ {"taskId", "attempt", "text"} :
                      k \in DOMAIN kret.task /\ kret.task[k] = kdata.task.payload[k]
                /\ kret.task.taskId = kdata.task.id
                /\ kret.task.attempt = kdata.task.attempt
                /\ \A i \in 1..Len(kdata.chunks) :
                      kdata.chunks[i].idx = kdata.task.payload.chunkIndex =>
                          kret.task.text = kdata.chunks[i].text
                /\ (\A i \in 1..Len(kdata.chunks) :
                      kdata.chunks[i].idx # kdata.task.payload.chunkIndex) =>
                          kret.task.text = ""

\* the task of chunk 1 was claimed, its text second in the response
C30_Witness ==
    /\ kpc = "done"
    /\ kdata.task.is = "task" /\ kdata.task.payload.chunkIndex = 1
    /\ kdata.chunks = <<[idx |-> 0, text |-> "a"], [idx |-> 1, text |-> "b"]>>
    /\ kret.kind = "task" /\ kret.task.text = "b" /\ kret.task.taskId = "task-1"

\* C31: the body submit_result posts always has chunkId and collection, has each
\* of tier2, tier3, entities, relationships and summary exactly when that
\* argument is not None, and no field of it is null.
C31_SubmitBody ==
    rpc = "done" =>
        /\ {"chunkId", "collection"} \subseteq DOMAIN rposted
        /\ \A a \in OptionalArgs : a \in DOMAIN rposted <=> rargs[a] # "None"
        /\ \A k \in DOMAIN rposted : rposted[k] # "None"

\* a result with an empty tier2, no tier3 and a summary was posted
C31_Witness ==
    /\ rpc = "done"
    /\ rargs.tier2 = "empty" /\ rargs.tier3 = "None" /\ rargs.summary = "full"
    /\ DOMAIN rposted \cap {"tier2", "tier3", "summary"} = {"tier2", "summary"}

\* the schema class and the prompt that belong to a tag
SchemaOfTag(tag) ==
    [code |-> "CodeMetadata", slack |-> "SlackMetadata", email |-> "EmailMetadata",
     meeting |-> "MeetingMetadata", image |-> "ImageMetadata", pdf |-> "PDFMetadata",
     article |-> "ArticleMetadata", text |-> "TextMetadata"][tag]

PromptOfTag(tag) ==
    [code |-> "code.PROMPT", slack |-> "slack.PROMPT", email |-> "email.PROMPT",
     meeting |-> "meeting.PROMPT", image |-> "image.PROMPT", pdf |-> "pdf.PROMPT",
     article |-> "article.PROMPT", text |-> "text.PROMPT"][tag]

\* C32: get_schema_for_doctype returns without raising for every string: the
\* schema and prompt of the tag for each of the eight tags, the generic text
\* schema and its prompt for every other string.
C32_RouterTotal ==
    \A i \in 1..Len(routed) :
        /\ routed[i].ends = "returned"
        /\ routed[i].schema =
              SchemaOfTag(IF doctypes[i] \in KnownDocTypes THEN doctypes[i] ELSE "text")
        /\ routed[i].prompt =
              PromptOfTag(IF doctypes[i] \in KnownDocTypes THEN doctypes[i] ELSE "text")

\* a tag and then a string that is no tag were looked up
C32_Witness ==
    /\ Len(routed) = 2
    /\ doctypes[1] = "pdf" /\ routed[1].schema = "PDFMetadata"
    /\ doctypes[2] = "pdf " /\ routed[2].schema = "TextMetadata"

\* worker w still holds a task whose lease it has lost: the lease expired and
\* was recovered, and the row is pending again, claimed by another worker,
\* completed or dead
LeaseLost(w) ==
    /\ held[w] # NoTask
    /\ rows[held[w].taskId].leased_by # w

\* C33 (as claimed): a complete_task or fail_task call of a worker that has lost
\* its lease on the task leaves the task's status, attempt and lease unchanged.
C33_OnlyLeaseHolder ==
    [][\A w \in Workers :
          (LeaseLost(w) /\ (CompleteTask(w) \/ FailTask(w))) =>
              LET t == held[w].taskId IN
              /\ rows'[t].status = rows[t].status
              /\ rows'[t].attempt = rows[t].attempt
              /\ rows'[t].leased_by = rows[t].leased_by
              /\ rows'[t].lease_expires_at = rows[t].lease_expires_at]_vars

\* C34: lease-field invariant: in every state reached through dequeue_task,
\* complete_task, fail_task and recover_stale_leases, a task has
\* lease_expires_at and leased_by set exactly when its status is 'processing';
\* in every other status both are NULL.
C34_LeaseFields ==
    \A t \in Tasks :
        IF rows[t].status = "processing"
        THEN rows[t].lease_expires_at # NULL /\ rows[t].leased_by # NULL
        ELSE rows[t].lease_expires_at = NULL /\ rows[t].leased_by = NULL

\* a lease was recovered, one task was completed and has no lease fields, and
\* another is being processed under a lease
C34_Witness ==
    /\ recovered # NULL /\ recovered > 0
    /\ \E t, u \in Tasks :
        /\ rows[t].status = "completed" /\ rows[t].leased_by = NULL
        /\ rows[u].status = "processing" /\ rows[u].leased_by \in Workers
        /\ rows[u].lease_expires_at > LeaseSeconds

\* C35 (as claimed): recoveries of stale leases counted, a task is claimed at
\* most MAX_RETRIES times before it reaches completed or dead.
C35_BoundedRedelivery ==
    \A t \in Tasks : ~everDone[t] => claimed[t] <= MAX_RETRIES

\* chunk i's task is somewhere: waiting in the pending queue, in the hands of a
\* consumer that is still running, processed successfully, or in the
\* dead-letter queue
Kept(i) ==
    \/ i \in completed
    \/ \E k \in DOMAIN queue : queue[k].chunkIndex = i
    \/ \E k \in DOMAIN dlq : dlq[k].chunkIndex = i
    \/ \E c \in Consumers :
          pc[c] \in {"delay", "process"} /\ cur[c] # NoMsg /\ cur[c].chunkIndex = i

\* C36 (as claimed): no task is lost by a consumer: every message popped from
\* the pending queue ends up processed successfully, pushed back to the pending
\* queue or pushed to the dead-letter queue, also when the push raises and when
\* the consumer is cancelled with the task in flight.
C36_NoTaskLost == \A i \in 0..(nChunks - 1) : Kept(i)

\* C37: dequeue_task honours readiness and order: the row it claims is pending,
\* its run_after is not in the future, and no other ready pending row (that no
\* dequeue in flight has locked) has a smaller (run_after, created_at); the row
\* is still so when the statement's UPDATE is applied.
C37_DequeueReadyInOrder ==
    [][\A w \in Workers :
          /\ DequeueSelect(w) =>
                LET t == sel'[w] IN
                /\ rows[t].status = "pending"
                /\ rows[t].run_after <= now
                /\ \A u \in Tasks :
                      (/\ rows[u].status = "pending"
                       /\ rows[u].run_after <= now
                       /\ lockedBy[u] = NULL) =>
                          \/ rows[t].run_after < rows[u].run_after
                          \/ /\ rows[t].run_after = rows[u].run_after
                             /\ rows[t].created_at <= rows[u].created_at
          /\ DequeueUpdate(w) =>
                /\ rows[sel[w]].status = "pending"
                /\ rows[sel[w]].run_after <= now
                /\ rows'[sel[w]].status = "processing"]_vars

\* a task that failed is waiting for its backoff to pass, and a dequeue has
\* passed over it and taken the task enqueued after it
C37_Witness ==
    \E w \in Workers, t, u \in Tasks :
        /\ rows[t].status = "pending" /\ rows[t].attempt > 1 /\ rows[t].run_after > now
        /\ rows[t].created_at < rows[u].created_at
        /\ held[w] # NoTask /\ held[w].taskId = u
        /\ rows[u].status = "processing" /\ rows[u].lease_expires_at = now + LeaseSeconds

\* C38 (as claimed): no call of process_text_nlp, concurrent with the first
\* initialisation or after one that failed part-way, obtains a pipeline that
\* lacks the textrank component.
C38_NoPartialPipeline ==
    \A c \in Calls : ngot[c] # 0 => ngotrank[c]

\* C39 (as claimed): get_pool creates at most one connection pool, also when
\* several coroutines call it while there is none; every caller receives the
\* same pool, and no pool that was created is left unreferenced.
C39_OnePool ==
    /\ pools <= 1
    /\ \A c, d \in Callers : (ogot[c] # 0 /\ ogot[d] # 0) => ogot[c] = ogot[d]
    /\ \A k \in 1..pools : k = pool

\* a graph call of write_to_neo4j raised in this run
GraphWriteFailed == \E call \in GraphCalls : <<call, NULL>> \in pfailed

\* C40: an exception of a graph call is swallowed by write_to_neo4j and never
\* fails the task: document-level extraction goes on to its end, the status
\* write 'enriched' follows (and marks the chunk, when Qdrant takes it),
\* process_task returns, and the task is neither re-queued nor dead-lettered.
C40_GraphWriteBestEffort ==
    GraphWriteFailed =>
        /\ ppc \in {"status_enriched", "returned", "done"}
        /\ poutcome \in {"running", "ok"}
        /\ Count(plog, "status_failed") = 0
        /\ Count(plog, "rpush_pending") = 0 /\ Count(plog, "lpush_dead") = 0
        /\ ppc \in {"returned", "done"} =>
              /\ poutcome = "ok"
              /\ plog[Len(plog)] \in {"status_enriched", "enrichment_complete"}
              /\ Count(plog, "status_enriched") = 1
              /\ <<"status_enriched", ptask.chunkIndex>> \notin pfailed =>
                    pstatus[ptask.chunkIndex] = "enriched"
        /\ ppc = "done" => plog[Len(plog)] = "enrichment_complete"

\* add_mention raised, and the run ended with the chunk enriched and the
\* completion logged
C40_Witness ==
    /\ <<"add_mention", NULL>> \in pfailed
    /\ ppc = "done" /\ poutcome = "ok"
    /\ pstatus[ptask.chunkIndex] = "enriched"
    /\ plog[Len(plog)] = "enrichment_complete"

====
